---- MODULE Spec2Model ----
(***************************************************************************)
(* A model of examples/13_concurrency.rs: the vignettes of main(), each    *)
(* with the threads it spawns and the channels, mutexes and barrier they   *)
(* share.  Every thread has a program counter; one action is one step of   *)
(* one thread.  thread::sleep changes no state and is folded into the step *)
(* it follows.                                                             *)
(***************************************************************************)
EXTENDS Integers, Sequences, FiniteSets, TLC

VARIABLES
    mainpc,        \* position of main()
    \* --- Multiple Threads
    tSpawned,      \* number of worker threads main has spawned
    tJoined,       \* number of handles main has joined
    tpc,           \* tpc[i]: position of worker thread i
    tret,          \* tret[i]: the value worker thread i returned ("": none yet)
    tLog,          \* the lines the workers printed: <<thread, what>>
    results,       \* main's vector results
    \* --- Channels for Communication / Multiple Producers
    ch1,           \* (tx, rx) of "Channels for Communication"
    p1pc,          \* the producer thread of that vignette
    p1i,           \* index of the message it sends next (1-based)
    received,      \* what main printed as "Received: ..", in order
    ch2,           \* (tx, rx) of "Multiple Producers"
    fanI,          \* main's loop variable i of the spawning loop
    fpc,           \* fpc[i]: position of producer thread i
    fj,            \* fj[i]: loop variable j of producer thread i
    all_messages,  \* main's vector all_messages
    \* --- Shared State with Mutex
    counter,       \* the integer inside Arc<Mutex<i32>>
    counterLock,   \* the workers holding the mutex's guard
    counterPoisoned, \* the mutex is poisoned: a holder of its guard panicked
    cSpawned,      \* number of workers main has spawned
    cJoined,       \* number of handles main has joined
    cpc,           \* cpc[w]: position of worker w
    ck,            \* ck[w]: rounds of `for _ in 0..1000` worker w has finished
    cnum,          \* cnum[w]: the value worker w loaded for `*num += 1` (0: none)
    finalCounter,  \* the value main prints as "Final counter value"
    \* --- Worker Pool Pattern
    jobCh,         \* (job_tx, job_rx)
    rxLock,        \* the workers holding the guard of the mutex around job_rx
    wSpawned,      \* number of workers main has spawned
    jobNext,       \* main's loop variable job_id
    wJoined,       \* number of workers main has joined
    wpc,           \* wpc[w]: position of worker w
    wjob,          \* wjob[w]: the job id worker w holds (0: none)
    recvLog,       \* every successful recv, in order: <<worker, job id>>
    processing,    \* processing[j]: the workers that printed "processing job j"
    completed,     \* completed[j]: the workers that printed "completed job j"
    \* --- Thread Synchronization (barrier)
    barCount,      \* Barrier: threads arrived in the current generation
    barGen,        \* Barrier: generation id
    bSpawned,      \* number of threads main has spawned
    bJoined,       \* number of handles main has joined
    bpc,           \* bpc[i]: position of thread i
    bLocalGen,     \* bLocalGen[i]: the generation thread i arrived in
    bLog,          \* the lines the threads printed: <<thread, what>>
    \* --- Producer-Consumer Pattern
    ch3,           \* (tx, rx)
    prodpc,        \* position of the producer thread
    prodI,         \* the producer's loop variable i
    conspc,        \* position of the consumer thread
    consumed,      \* the items the consumer printed as "Consuming: ..", in order
    \* --- Concurrent Data Processing
    dResults,      \* the vector inside Arc<Mutex<Vec<i32>>> (`results`)
    resLock,       \* the threads holding the guard of that mutex
    dSpawned,      \* number of chunk threads main has spawned
    dJoined,       \* number of handles main has joined
    dpc,           \* dpc[c]: position of the thread of chunk c
    dsum,          \* dsum[c]: chunk_sum of that thread (0: not computed)
    finalTotal,    \* the value main prints as "Total sum" (-1: nothing printed)
    \* --- Error Handling in Threads
    eSpawned,      \* number of threads main has spawned
    eJoined,       \* number of handles main has joined
    epc,           \* epc[i]: position of thread i
    eret,          \* eret[i]: the String thread i returned ("": none)
    eReport,       \* the lines main printed in its join loop, in order
    \* --- examples/12_testing.rs: Calculator::divide
    calcA,         \* the argument a
    calcB,         \* the argument b
    calcOut,       \* what the call gave: Ok(q), Err(DivisionByZero) or a panic
    \* --- examples/12_testing.rs: TextProcessor
    text,          \* the argument text, a sequence of chars
    textDone,      \* the calls made so far
    revOnce,       \* reverse(text)
    revTwice,      \* reverse(reverse(text))
    palOut,        \* is_palindrome(text)
    \* --- Concurrent Calculations
    fSpawned,      \* number of Fibonacci threads main has spawned
    fJoined,       \* number of their handles main has joined
    fibpc,         \* fibpc[i]: position of the thread of numbers[i]
    fibret,        \* fibret[i]: the (num, result) it returned (<<>>: none yet)
    fibReport,     \* the "fib(n) = r" lines main printed, as <<n, r>>
    \* --- examples/06_structs_enums.rs: Game
    state,         \* game.state
    prevState,     \* game.state before the last call
    gameCalls,     \* the methods called on game so far, in order
    \* --- examples/09_traits_generics.rs: Counter
    current,       \* counter.current
    nextOut        \* what the calls of counter.next() returned, in order

threadVars == <<tSpawned, tJoined, tpc, tret, tLog, results>>

chanVars == <<ch1, p1pc, p1i, received, ch2, fanI, fpc, fj, all_messages>>

counterVars == <<counter, counterLock, counterPoisoned, cSpawned, cJoined, cpc, ck, cnum,
                 finalCounter>>

poolVars == <<jobCh, rxLock, wSpawned, jobNext, wJoined, wpc, wjob, recvLog,
              processing, completed>>

barrierVars == <<barCount, barGen, bSpawned, bJoined, bpc, bLocalGen, bLog>>

prodConsVars == <<ch3, prodpc, prodI, conspc, consumed>>

dataVars == <<dResults, resLock, dSpawned, dJoined, dpc, dsum, finalTotal>>

errVars == <<eSpawned, eJoined, epc, eret, eReport>>

calcVars == <<calcA, calcB, calcOut>>

textVars == <<text, textDone, revOnce, revTwice, palOut>>

fibVars == <<fSpawned, fJoined, fibpc, fibret, fibReport>>

gameVars == <<state, prevState, gameCalls>>

iterVars == <<current, nextOut>>

vars == <<mainpc, threadVars, chanVars, counterVars, poolVars, barrierVars, prodConsVars,
          dataVars, errVars, calcVars, textVars,
          fibVars, gameVars, iterVars>>

\* What the actions of one vignette leave alone: the state of the others.
notThreads == <<chanVars, counterVars, poolVars, barrierVars, prodConsVars,
    dataVars, errVars, calcVars, textVars,
    fibVars, gameVars, iterVars>>

notChan == <<threadVars, counterVars, poolVars, barrierVars, prodConsVars,
    dataVars, errVars, calcVars, textVars,
    fibVars, gameVars, iterVars>>

notCounter == <<threadVars, chanVars, poolVars, barrierVars, prodConsVars,
    dataVars, errVars, calcVars, textVars,
    fibVars, gameVars, iterVars>>

notPool == <<threadVars, chanVars, counterVars, barrierVars, prodConsVars,
    dataVars, errVars, calcVars, textVars,
    fibVars, gameVars, iterVars>>

notBarrier == <<threadVars, chanVars, counterVars, poolVars, prodConsVars,
    dataVars, errVars, calcVars, textVars,
    fibVars, gameVars, iterVars>>

notProdCons == <<threadVars, chanVars, counterVars, poolVars, barrierVars,
    dataVars, errVars, calcVars, textVars,
    fibVars, gameVars, iterVars>>

notData == <<threadVars, chanVars, counterVars, poolVars, barrierVars, prodConsVars,
    errVars, calcVars, textVars,
    fibVars, gameVars, iterVars>>

notErr == <<threadVars, chanVars, counterVars, poolVars, barrierVars, prodConsVars,
    dataVars, calcVars, textVars,
    fibVars, gameVars, iterVars>>

\* The calls of examples/12_testing.rs touch nothing of the concurrency program.
notCalc == <<mainpc, threadVars, chanVars, counterVars, poolVars, barrierVars,
    prodConsVars, dataVars, errVars, textVars,
    fibVars, gameVars, iterVars>>

notText == <<mainpc, threadVars, chanVars, counterVars, poolVars, barrierVars,
    prodConsVars, dataVars, errVars, calcVars,
    fibVars, gameVars, iterVars>>

notFib == <<threadVars, chanVars, counterVars, poolVars, barrierVars, prodConsVars,
    dataVars, errVars, calcVars, textVars, gameVars, iterVars>>

\* The calls on a Game or on a Counter touch nothing of the other programs.
notGame == <<mainpc, threadVars, chanVars, counterVars, poolVars, barrierVars,
    prodConsVars, dataVars, errVars, calcVars, textVars, fibVars, iterVars>>

notIter == <<mainpc, threadVars, chanVars, counterVars, poolVars, barrierVars,
    prodConsVars, dataVars, errVars, calcVars, textVars, fibVars, gameVars>>

(***************************************************************************)
(* std::sync::mpsc as the program uses it: an unbounded FIFO queue, a      *)
(* count of live Sender handles and whether the Receiver is still alive.   *)
(***************************************************************************)
NoChannel == [q |-> <<>>, senders |-> 0, rcv |-> FALSE]

NewChannel == [q |-> <<>>, senders |-> 1, rcv |-> TRUE]

\* Sender::send succeeds exactly while the Receiver is alive; it never blocks.
SendOk(ch) == ch.rcv

\* A send that puts the message at the front of the queue.
ChSendFront(ch, m) == [ch EXCEPT !.q = <<m>> \o @]

ChSend(ch, m) == [ch EXCEPT !.q = Append(@, m)]

ChClone(ch) == [ch EXCEPT !.senders = @ + 1]

ChDropTx(ch) == [ch EXCEPT !.senders = @ - 1]

ChDropRx(ch) == [ch EXCEPT !.rcv = FALSE, !.q = <<>>]

\* Receiver::recv / Iterator::next: a queued message is returned first.
RecvReady(ch) == ch.q # <<>>

\* A receive that leaves the message in the queue.
ChPeek(ch) == ch

ChPop(ch) == [ch EXCEPT !.q = Tail(@)]

\* A recv that reports closure as soon as the queue is empty.
RecvClosedOnEmpty(ch) == ch.q = <<>>

\* recv fails (the iteration ends) when the queue is empty and no Sender is left.
RecvClosed(ch) == ch.q = <<>> /\ ch.senders = 0

(***************************************************************************)
(* format!("{}", n) for a non-negative integer: its decimal digits.        *)
(***************************************************************************)
Digit(d) ==
    CASE d = 0 -> "0" [] d = 1 -> "1" [] d = 2 -> "2" [] d = 3 -> "3"
      [] d = 4 -> "4" [] d = 5 -> "5" [] d = 6 -> "6" [] d = 7 -> "7"
      [] d = 8 -> "8" [] d = 9 -> "9"

RECURSIVE DecStr(_)
DecStr(n) == IF n < 10 THEN Digit(n) ELSE DecStr(n \div 10) \o Digit(n % 10)

(***************************************************************************)
(* Multiple Threads: three workers, joined in the order they were spawned. *)
(***************************************************************************)
NumThreads == 3

Threads == 0 .. NumThreads - 1

ThreadResult(i) == "Result from thread " \o DecStr(i)

\* One round of `for i in 0..3`: spawn worker i and push its handle.
ThreadSpawn ==
    /\ mainpc = "threads_spawn"
    /\ tSpawned < NumThreads
    /\ tpc' = [tpc EXCEPT ![tSpawned] = "start"]
    /\ tSpawned' = tSpawned + 1
    /\ mainpc' = IF tSpawned + 1 < NumThreads THEN "threads_spawn" ELSE "threads_join"
    /\ UNCHANGED <<tJoined, tret, tLog, results>>
    /\ UNCHANGED notThreads

\* println!("Worker thread {} starting"), then the sleep.
ThreadStart(i) ==
    /\ tpc[i] = "start"
    /\ tLog' = Append(tLog, <<i, "starting">>)
    /\ tpc' = [tpc EXCEPT ![i] = "finish"]
    /\ UNCHANGED <<mainpc, tSpawned, tJoined, tret, results>>
    /\ UNCHANGED notThreads

\* println!("Worker thread {} finished"); the closure returns its String.
ThreadFinish(i) ==
    /\ tpc[i] = "finish"
    /\ tLog' = Append(tLog, <<i, "finished">>)
    /\ tret' = [tret EXCEPT ![i] = ThreadResult(i)]
    /\ tpc' = [tpc EXCEPT ![i] = "done"]
    /\ UNCHANGED <<mainpc, tSpawned, tJoined, results>>
    /\ UNCHANGED notThreads

\* A worker's println! fails (stdout cannot be written): the worker panics.
ThreadPanic(i) ==
    /\ tpc[i] \in {"start", "finish"}
    /\ tpc' = [tpc EXCEPT ![i] = "panicked"]
    /\ UNCHANGED <<mainpc, tSpawned, tJoined, tret, tLog, results>>
    /\ UNCHANGED notThreads

\* A join that does not wait for the worker to end.
ThreadJoinNoWait ==
    /\ mainpc = "threads_join"
    /\ results' = Append(results, tret[tJoined])
    /\ tJoined' = tJoined + 1
    /\ mainpc' = IF tJoined + 1 < NumThreads THEN "threads_join" ELSE "chan_create"
    /\ UNCHANGED <<tSpawned, tpc, tret, tLog>>
    /\ UNCHANGED notThreads

\* A join loop that takes the handles last-spawned first.
ThreadJoinReverse ==
    /\ mainpc = "threads_join"
    /\ tpc[NumThreads - 1 - tJoined] = "done"
    /\ results' = Append(results, tret[NumThreads - 1 - tJoined])
    /\ tJoined' = tJoined + 1
    /\ mainpc' = IF tJoined + 1 < NumThreads THEN "threads_join" ELSE "chan_create"
    /\ UNCHANGED <<tSpawned, tpc, tret, tLog>>
    /\ UNCHANGED notThreads

\* One round of `for handle in handles`: join().unwrap() and push the result.
\* join() of a panicked worker is an Err, and unwrap() panics on it.
ThreadJoin ==
    /\ mainpc = "threads_join"
    /\ tpc[tJoined] \in {"done", "panicked"}
    /\ IF tpc[tJoined] = "done"
         THEN /\ results' = Append(results, tret[tJoined])
              /\ tJoined' = tJoined + 1
              /\ mainpc' = IF tJoined + 1 < NumThreads THEN "threads_join"
                                                      ELSE "chan_create"
         ELSE /\ mainpc' = "panicked"
              /\ UNCHANGED <<results, tJoined>>
    /\ UNCHANGED <<tSpawned, tpc, tret, tLog>>
    /\ UNCHANGED notThreads

(***************************************************************************)
(* Channels for Communication (one producer).                              *)
(***************************************************************************)
messages == <<"Hello", "from", "the", "thread">>

\* let (tx, rx) = mpsc::channel();
ChanCreate ==
    /\ mainpc = "chan_create"
    /\ ch1' = NewChannel
    /\ mainpc' = "chan_spawn"
    /\ UNCHANGED <<p1pc, p1i, received, ch2, fanI, fpc, fj, all_messages>>
    /\ UNCHANGED notChan

\* thread::spawn(move || ..): tx moves into the new thread.
ChanSpawn ==
    /\ mainpc = "chan_spawn"
    /\ p1pc = "idle"
    /\ p1pc' = "send"
    /\ mainpc' = "chan_recv"
    /\ UNCHANGED <<ch1, p1i, received, ch2, fanI, fpc, fj, all_messages>>
    /\ UNCHANGED notChan

\* One round of `for msg in messages`: send(msg).unwrap(), then sleep.
ChanSend ==
    /\ p1pc = "send"
    /\ IF SendOk(ch1)
         THEN /\ ch1' = ChSend(ch1, messages[p1i])
              /\ p1i' = p1i + 1
              /\ p1pc' = IF p1i < Len(messages) THEN "send" ELSE "drop"
         ELSE /\ p1pc' = "panicked"
              /\ ch1' = ChDropTx(ch1)
              /\ UNCHANGED p1i
    /\ UNCHANGED <<mainpc, received, ch2, fanI, fpc, fj, all_messages>>
    /\ UNCHANGED notChan

\* The closure returns: the tx it owns is dropped.
ChanDropTx ==
    /\ p1pc = "drop"
    /\ ch1' = ChDropTx(ch1)
    /\ p1pc' = "exiting"
    /\ UNCHANGED <<mainpc, p1i, received, ch2, fanI, fpc, fj, all_messages>>
    /\ UNCHANGED notChan

\* The thread, never joined, terminates.
ChanExit ==
    /\ p1pc = "exiting"
    /\ p1pc' = "done"
    /\ UNCHANGED <<mainpc, ch1, p1i, received, ch2, fanI, fpc, fj, all_messages>>
    /\ UNCHANGED notChan

\* `for received in rx`: one message is received and printed.
ChanRecv ==
    /\ mainpc = "chan_recv"
    /\ RecvReady(ch1)
    /\ received' = Append(received, Head(ch1.q))
    /\ ch1' = ChPop(ch1)
    /\ UNCHANGED <<mainpc, p1pc, p1i, ch2, fanI, fpc, fj, all_messages>>
    /\ UNCHANGED notChan

\* The iteration ends on closure; rx is dropped with the loop.
ChanRecvEnd ==
    /\ mainpc = "chan_recv"
    /\ RecvClosed(ch1)
    /\ ch1' = ChDropRx(ch1)
    /\ mainpc' = "fan_create"
    /\ UNCHANGED <<p1pc, p1i, received, ch2, fanI, fpc, fj, all_messages>>
    /\ UNCHANGED notChan

(***************************************************************************)
(* Multiple Producers (fan-in).                                            *)
(***************************************************************************)
NumProducers == 3

MsgsPerProducer == 3

Producers == 0 .. NumProducers - 1

FanMsg(i, j) == "Producer " \o DecStr(i) \o " message " \o DecStr(j)

\* let (tx, rx) = mpsc::channel();
FanCreate ==
    /\ mainpc = "fan_create"
    /\ ch2' = NewChannel
    /\ fanI' = 0
    /\ mainpc' = "fan_spawn"
    /\ UNCHANGED <<ch1, p1pc, p1i, received, fpc, fj, all_messages>>
    /\ UNCHANGED notChan

\* One round of `for i in 0..3`: clone tx and move the clone into a new thread.
FanSpawn ==
    /\ mainpc = "fan_spawn"
    /\ fanI < NumProducers
    /\ ch2' = ChClone(ch2)
    /\ fpc' = [fpc EXCEPT ![fanI] = "send"]
    /\ fanI' = fanI + 1
    /\ UNCHANGED <<mainpc, ch1, p1pc, p1i, received, fj, all_messages>>
    /\ UNCHANGED notChan

\* Main goes on to drain without drop(tx).
FanKeepOriginal ==
    /\ mainpc = "fan_spawn"
    /\ fanI = NumProducers
    /\ mainpc' = "fan_recv"
    /\ UNCHANGED <<ch1, p1pc, p1i, received, ch2, fanI, fpc, fj, all_messages>>
    /\ UNCHANGED notChan

\* drop(tx), reached when the spawning loop is over.
FanDropOriginal ==
    /\ mainpc = "fan_spawn"
    /\ fanI = NumProducers
    /\ ch2' = ChDropTx(ch2)
    /\ mainpc' = "fan_recv"
    /\ UNCHANGED <<ch1, p1pc, p1i, received, fanI, fpc, fj, all_messages>>
    /\ UNCHANGED notChan

\* One round of `for j in 0..3` in producer i: format, send, sleep.
FanSend(i) ==
    /\ fpc[i] = "send"
    /\ IF SendOk(ch2)
         THEN /\ ch2' = ChSend(ch2, FanMsg(i, fj[i]))
              /\ fj' = [fj EXCEPT ![i] = @ + 1]
              /\ fpc' = [fpc EXCEPT ![i] =
                           IF fj[i] + 1 < MsgsPerProducer THEN "send" ELSE "drop"]
         ELSE /\ fpc' = [fpc EXCEPT ![i] = "panicked"]
              /\ ch2' = ChDropTx(ch2)
              /\ UNCHANGED fj
    /\ UNCHANGED <<mainpc, ch1, p1pc, p1i, received, fanI, all_messages>>
    /\ UNCHANGED notChan

\* Producer i's closure returns: tx_clone is dropped.
FanDropClone(i) ==
    /\ fpc[i] = "drop"
    /\ ch2' = ChDropTx(ch2)
    /\ fpc' = [fpc EXCEPT ![i] = "exiting"]
    /\ UNCHANGED <<mainpc, ch1, p1pc, p1i, received, fanI, fj, all_messages>>
    /\ UNCHANGED notChan

\* Producer i, never joined, terminates.
FanExit(i) ==
    /\ fpc[i] = "exiting"
    /\ fpc' = [fpc EXCEPT ![i] = "done"]
    /\ UNCHANGED <<mainpc, ch1, p1pc, p1i, received, ch2, fanI, fj, all_messages>>
    /\ UNCHANGED notChan

\* `for received in rx { all_messages.push(received) }`
FanRecv ==
    /\ mainpc = "fan_recv"
    /\ RecvReady(ch2)
    /\ all_messages' = Append(all_messages, Head(ch2.q))
    /\ ch2' = ChPop(ch2)
    /\ UNCHANGED <<mainpc, ch1, p1pc, p1i, received, fanI, fpc, fj>>
    /\ UNCHANGED notChan

\* The drain loop ends on closure; main prints the count and the messages.
FanRecvEnd ==
    /\ mainpc = "fan_recv"
    /\ RecvClosed(ch2)
    /\ ch2' = ChDropRx(ch2)
    /\ mainpc' = "counter_create"
    /\ UNCHANGED <<ch1, p1pc, p1i, received, fanI, fpc, fj, all_messages>>
    /\ UNCHANGED notChan

(***************************************************************************)
(* std::sync::Mutex: lock() blocks until no thread holds the mutex.  A     *)
(* mutex is modelled by the set of threads holding its guard.              *)
(***************************************************************************)
\* A lock() that never waits.
MutexNeverWaits(lock) == TRUE

MutexFree(lock) == lock = {}

(***************************************************************************)
(* Shared State with Mutex.                                                *)
(***************************************************************************)
NumCounterWorkers == 5

\* Rounds of `for _ in 0..1000` in each worker.
Increments == 3

CounterWorkers == 0 .. NumCounterWorkers - 1

\* let counter = Arc::new(Mutex::new(0));
CounterCreate ==
    /\ mainpc = "counter_create"
    /\ counter' = 0
    /\ counterLock' = {}
    /\ counterPoisoned' = FALSE
    /\ mainpc' = "counter_spawn"
    /\ UNCHANGED <<cSpawned, cJoined, cpc, ck, cnum, finalCounter, counterPoisoned>>
    /\ UNCHANGED notCounter

\* One round of `for i in 0..5`: clone the Arc and spawn worker i.
CounterSpawn ==
    /\ mainpc = "counter_spawn"
    /\ cSpawned < NumCounterWorkers
    /\ cpc' = [cpc EXCEPT ![cSpawned] = IF Increments > 0 THEN "lock" ELSE "finish"]
    /\ cSpawned' = cSpawned + 1
    /\ mainpc' = IF cSpawned + 1 < NumCounterWorkers
                   THEN "counter_spawn" ELSE "counter_join"
    /\ UNCHANGED <<counter, counterLock, cJoined, ck, cnum, finalCounter, counterPoisoned>>
    /\ UNCHANGED notCounter

\* let mut num = counter.lock().unwrap(); on a poisoned mutex lock() gives
\* Err(PoisonError), whose guard is dropped again as unwrap() panics.
CounterLock(w) ==
    /\ cpc[w] = "lock"
    /\ MutexFree(counterLock)
    /\ IF counterPoisoned
         THEN /\ cpc' = [cpc EXCEPT ![w] = "panicked"]
              /\ UNCHANGED counterLock
         ELSE /\ counterLock' = counterLock \cup {w}
              /\ cpc' = [cpc EXCEPT ![w] = "read"]
    /\ UNCHANGED <<counter, cSpawned, cJoined, ck, cnum, finalCounter, mainpc, counterPoisoned>>
    /\ UNCHANGED notCounter

\* *num += 1, the load.
CounterRead(w) ==
    /\ cpc[w] = "read"
    /\ cnum' = [cnum EXCEPT ![w] = counter]
    /\ cpc' = [cpc EXCEPT ![w] = "write"]
    /\ UNCHANGED <<counter, counterLock, cSpawned, cJoined, ck, finalCounter, mainpc,
                   counterPoisoned>>
    /\ UNCHANGED notCounter

\* An increment that panics: unwinding drops the guard and poisons the mutex.
CounterWritePanics(w) ==
    /\ cpc[w] = "write"
    /\ counterLock' = counterLock \ {w}
    /\ counterPoisoned' = TRUE
    /\ cpc' = [cpc EXCEPT ![w] = "panicked"]
    /\ cnum' = [cnum EXCEPT ![w] = 0]
    /\ UNCHANGED <<mainpc, counter, cSpawned, cJoined, ck, finalCounter>>
    /\ UNCHANGED notCounter

\* *num += 1, the store; the loaded value is dead afterwards.
CounterWrite(w) ==
    /\ cpc[w] = "write"
    /\ counter' = cnum[w] + 1
    /\ cnum' = [cnum EXCEPT ![w] = 0]
    /\ cpc' = [cpc EXCEPT ![w] = "unlock"]
    /\ UNCHANGED <<counterLock, cSpawned, cJoined, ck, finalCounter, mainpc, counterPoisoned>>
    /\ UNCHANGED notCounter

\* The round ends: the guard num goes out of scope and the mutex is released.
CounterUnlock(w) ==
    /\ cpc[w] = "unlock"
    /\ counterLock' = counterLock \ {w}
    /\ ck' = [ck EXCEPT ![w] = @ + 1]
    /\ cpc' = [cpc EXCEPT ![w] = IF ck[w] + 1 < Increments THEN "lock" ELSE "finish"]
    /\ UNCHANGED <<counter, cSpawned, cJoined, cnum, finalCounter, mainpc, counterPoisoned>>
    /\ UNCHANGED notCounter

\* println!("Thread {} finished incrementing"), and the thread ends.
CounterFinish(w) ==
    /\ cpc[w] = "finish"
    /\ cpc' = [cpc EXCEPT ![w] = "done"]
    /\ UNCHANGED <<counter, counterLock, cSpawned, cJoined, ck, cnum, finalCounter, mainpc,
                   counterPoisoned>>
    /\ UNCHANGED notCounter

\* A panic inside the critical section that leaves the mutex locked.
CounterPanicKeepingGuard(w) ==
    /\ cpc[w] \in {"read", "write", "unlock"}
    /\ cnum' = [cnum EXCEPT ![w] = 0]
    /\ cpc' = [cpc EXCEPT ![w] = "panicked"]
    /\ UNCHANGED <<counter, counterLock, counterPoisoned, cSpawned, cJoined, ck,
                   finalCounter, mainpc>>
    /\ UNCHANGED notCounter

\* The worker panics inside the critical section (`*num += 1` overflowing in
\* a build with overflow checks): unwinding drops the guard num, which
\* releases the mutex and marks it poisoned.
CounterPanicHolding(w) ==
    /\ cpc[w] \in {"read", "write", "unlock"}
    /\ counterLock' = counterLock \ {w}
    /\ counterPoisoned' = TRUE
    /\ cnum' = [cnum EXCEPT ![w] = 0]
    /\ cpc' = [cpc EXCEPT ![w] = "panicked"]
    /\ UNCHANGED <<counter, cSpawned, cJoined, ck, finalCounter, mainpc>>
    /\ UNCHANGED notCounter

\* The worker's println! fails (stdout cannot be written): the worker panics,
\* holding no guard.
CounterPanic(w) ==
    /\ cpc[w] = "finish"
    /\ cpc' = [cpc EXCEPT ![w] = "panicked"]
    /\ UNCHANGED <<counter, counterLock, cSpawned, cJoined, ck, cnum, finalCounter, mainpc,
                   counterPoisoned>>
    /\ UNCHANGED notCounter

\* One round of `for handle in handles { handle.join().unwrap(); }`: unwrap()
\* panics on the Err that join() gives for a panicked worker.
CounterJoin ==
    /\ mainpc = "counter_join"
    /\ cpc[cJoined] \in {"done", "panicked"}
    /\ IF cpc[cJoined] = "done"
         THEN /\ cJoined' = cJoined + 1
              /\ mainpc' = IF cJoined + 1 < NumCounterWorkers
                             THEN "counter_join" ELSE "counter_print"
         ELSE /\ mainpc' = "panicked"
              /\ UNCHANGED cJoined
    /\ UNCHANGED <<counter, counterLock, cSpawned, cpc, ck, cnum, finalCounter,
                   counterPoisoned>>
    /\ UNCHANGED notCounter

\* println!("Final counter value: {}", *counter.lock().unwrap());
CounterPrint ==
    /\ mainpc = "counter_print"
    /\ MutexFree(counterLock)
    /\ IF counterPoisoned
         THEN /\ mainpc' = "panicked"
              /\ UNCHANGED finalCounter
         ELSE /\ finalCounter' = counter
              /\ mainpc' = "pool_create"
    /\ UNCHANGED <<counter, counterLock, cSpawned, cJoined, cpc, ck, cnum, counterPoisoned>>
    /\ UNCHANGED notCounter

(***************************************************************************)
(* Worker Pool Pattern.                                                    *)
(***************************************************************************)
NumPoolWorkers == 3

NumJobs == 6

PoolWorkers == 0 .. NumPoolWorkers - 1

Jobs == 1 .. NumJobs

\* mpsc::channel() and Arc::new(Mutex::new(job_rx)).
PoolCreate ==
    /\ mainpc = "pool_create"
    /\ jobCh' = NewChannel
    /\ rxLock' = {}
    /\ mainpc' = "pool_spawn"
    /\ UNCHANGED <<wSpawned, jobNext, wJoined, wpc, wjob, recvLog, processing, completed>>
    /\ UNCHANGED notPool

\* One round of `for id in 0..3`: clone the Arc and spawn worker id.
PoolSpawn ==
    /\ mainpc = "pool_spawn"
    /\ wSpawned < NumPoolWorkers
    /\ wpc' = [wpc EXCEPT ![wSpawned] = "lock"]
    /\ wSpawned' = wSpawned + 1
    /\ mainpc' = IF wSpawned + 1 < NumPoolWorkers THEN "pool_spawn" ELSE "pool_send"
    /\ UNCHANGED <<jobCh, rxLock, jobNext, wJoined, wjob, recvLog, processing, completed>>
    /\ UNCHANGED notPool

\* One round of `for job_id in 1..=6`: job_tx.send(job_id).unwrap().
PoolSendJob ==
    /\ mainpc = "pool_send"
    /\ IF SendOk(jobCh)
         THEN /\ jobCh' = ChSend(jobCh, jobNext)
              /\ jobNext' = jobNext + 1
              /\ mainpc' = IF jobNext < NumJobs THEN "pool_send" ELSE "pool_drop"
         ELSE /\ mainpc' = "panicked"
              /\ UNCHANGED <<jobCh, jobNext>>
    /\ UNCHANGED <<rxLock, wSpawned, wJoined, wpc, wjob, recvLog, processing, completed>>
    /\ UNCHANGED notPool

\* Main goes on to join without drop(job_tx).
PoolKeepTx ==
    /\ mainpc = "pool_drop"
    /\ mainpc' = "pool_join"
    /\ UNCHANGED <<jobCh, rxLock, wSpawned, jobNext, wJoined, wpc, wjob, recvLog,
                   processing, completed>>
    /\ UNCHANGED notPool

\* drop(job_tx);
PoolDropTx ==
    /\ mainpc = "pool_drop"
    /\ jobCh' = ChDropTx(jobCh)
    /\ mainpc' = "pool_join"
    /\ UNCHANGED <<rxLock, wSpawned, jobNext, wJoined, wpc, wjob, recvLog, processing,
                   completed>>
    /\ UNCHANGED notPool

\* rx.lock().unwrap(): worker w takes the guard of the receiver's mutex.
PoolLock(w) ==
    /\ wpc[w] = "lock"
    /\ MutexFree(rxLock)
    /\ rxLock' = rxLock \cup {w}
    /\ wpc' = [wpc EXCEPT ![w] = "recv"]
    /\ UNCHANGED <<mainpc, jobCh, wSpawned, jobNext, wJoined, wjob, recvLog, processing,
                   completed>>
    /\ UNCHANGED notPool

\* A receive whose guard lives on into the match on the job.
PoolRecvHoldingGuard(w) ==
    /\ wpc[w] = "recv"
    /\ RecvReady(jobCh)
    /\ wjob' = [wjob EXCEPT ![w] = Head(jobCh.q)]
    /\ recvLog' = Append(recvLog, <<w, Head(jobCh.q)>>)
    /\ jobCh' = ChPop(jobCh)
    /\ wpc' = [wpc EXCEPT ![w] = "process"]
    /\ UNCHANGED <<mainpc, rxLock, wSpawned, jobNext, wJoined, processing, completed>>
    /\ UNCHANGED notPool

\* .recv() returns Ok(job_id); the guard, a temporary, is dropped at the end
\* of the `let job = ..;` statement.
PoolRecv(w) ==
    /\ wpc[w] = "recv"
    /\ RecvReady(jobCh)
    /\ wjob' = [wjob EXCEPT ![w] = Head(jobCh.q)]
    /\ recvLog' = Append(recvLog, <<w, Head(jobCh.q)>>)
    /\ jobCh' = ChPop(jobCh)
    /\ rxLock' = rxLock \ {w}
    /\ wpc' = [wpc EXCEPT ![w] = "process"]
    /\ UNCHANGED <<mainpc, wSpawned, jobNext, wJoined, processing, completed>>
    /\ UNCHANGED notPool

\* .recv() returns Err: the channel is closed and drained.
PoolRecvClosed(w) ==
    /\ wpc[w] = "recv"
    /\ RecvClosed(jobCh)
    /\ rxLock' = rxLock \ {w}
    /\ wpc' = [wpc EXCEPT ![w] = "shutdown"]
    /\ UNCHANGED <<mainpc, jobCh, wSpawned, jobNext, wJoined, wjob, recvLog, processing,
                   completed>>
    /\ UNCHANGED notPool

\* println!("Worker {} processing job {}"), then the sleep.
PoolProcess(w) ==
    /\ wpc[w] = "process"
    /\ processing' = [processing EXCEPT ![wjob[w]] = Append(@, w)]
    /\ wpc' = [wpc EXCEPT ![w] = "complete"]
    /\ UNCHANGED <<mainpc, jobCh, rxLock, wSpawned, jobNext, wJoined, wjob, recvLog,
                   completed>>
    /\ UNCHANGED notPool

\* println!("Worker {} completed job {}"); the next round of the loop.
PoolComplete(w) ==
    /\ wpc[w] = "complete"
    /\ completed' = [completed EXCEPT ![wjob[w]] = Append(@, w)]
    /\ wjob' = [wjob EXCEPT ![w] = 0]
    /\ wpc' = [wpc EXCEPT ![w] = "lock"]
    /\ UNCHANGED <<mainpc, jobCh, rxLock, wSpawned, jobNext, wJoined, recvLog, processing>>
    /\ UNCHANGED notPool

\* println!("Worker {} shutting down"); break; the thread ends.
PoolShutdown(w) ==
    /\ wpc[w] = "shutdown"
    /\ wpc' = [wpc EXCEPT ![w] = "done"]
    /\ UNCHANGED <<mainpc, jobCh, rxLock, wSpawned, jobNext, wJoined, wjob, recvLog,
                   processing, completed>>
    /\ UNCHANGED notPool

\* One round of `for worker in workers { worker.join().unwrap(); }`.
PoolJoin ==
    /\ mainpc = "pool_join"
    /\ wpc[wJoined] = "done"
    /\ wJoined' = wJoined + 1
    /\ mainpc' = IF wJoined + 1 < NumPoolWorkers THEN "pool_join" ELSE "data_create"
    /\ UNCHANGED <<jobCh, rxLock, wSpawned, jobNext, wpc, wjob, recvLog, processing,
                   completed>>
    /\ UNCHANGED notPool

(***************************************************************************)
(* Thread Synchronization: std::sync::Barrier::new(3).                     *)
(***************************************************************************)
NumParties == 3

NumBarrierThreads == 3

BarrierThreads == 0 .. NumBarrierThreads - 1

\* A barrier that lets a generation go one arrival early.
LastToArriveEarly(count) == count + 1 >= NumParties - 1

\* A barrier that never sees its last party.
LastToArriveNever(count) == count + 1 > NumParties

\* Barrier::wait: the caller that makes the count reach n is the leader.
LastToArrive(count) == count + 1 >= NumParties

\* let barrier = Arc::new(std::sync::Barrier::new(3));
BarrierCreate ==
    /\ mainpc = "barrier_create"
    /\ barCount' = 0
    /\ barGen' = 0
    /\ mainpc' = "barrier_spawn"
    /\ UNCHANGED <<bSpawned, bJoined, bpc, bLocalGen, bLog>>
    /\ UNCHANGED notBarrier

\* One round of `for i in 0..3`: clone the Arc and spawn thread i.
BarrierSpawn ==
    /\ mainpc = "barrier_spawn"
    /\ bSpawned < NumBarrierThreads
    /\ bpc' = [bpc EXCEPT ![bSpawned] = "initial"]
    /\ bSpawned' = bSpawned + 1
    /\ mainpc' = IF bSpawned + 1 < NumBarrierThreads
                   THEN "barrier_spawn" ELSE "barrier_join"
    /\ UNCHANGED <<barCount, barGen, bJoined, bLocalGen, bLog>>
    /\ UNCHANGED notBarrier

\* println!("Thread {} doing initial work"), then the sleep.
BarrierInitialWork(i) ==
    /\ bpc[i] = "initial"
    /\ bLog' = Append(bLog, <<i, "initial">>)
    /\ bpc' = [bpc EXCEPT ![i] = "announce"]
    /\ UNCHANGED <<mainpc, barCount, barGen, bSpawned, bJoined, bLocalGen>>
    /\ UNCHANGED notBarrier

\* println!("Thread {} waiting at barrier");
BarrierAnnounce(i) ==
    /\ bpc[i] = "announce"
    /\ bLog' = Append(bLog, <<i, "waiting">>)
    /\ bpc' = [bpc EXCEPT ![i] = "wait"]
    /\ UNCHANGED <<mainpc, barCount, barGen, bSpawned, bJoined, bLocalGen>>
    /\ UNCHANGED notBarrier

\* barrier.wait(), the arrival: the last party resets the count and starts
\* the next generation; any other party blocks in the generation it saw.
BarrierArrive(i) ==
    /\ bpc[i] = "wait"
    /\ IF LastToArrive(barCount)
         THEN /\ barCount' = 0
              /\ barGen' = barGen + 1
              /\ bpc' = [bpc EXCEPT ![i] = "final"]
              /\ UNCHANGED bLocalGen
         ELSE /\ barCount' = barCount + 1
              /\ bLocalGen' = [bLocalGen EXCEPT ![i] = barGen]
              /\ bpc' = [bpc EXCEPT ![i] = "blocked"]
              /\ UNCHANGED barGen
    /\ UNCHANGED <<mainpc, bSpawned, bJoined, bLog>>
    /\ UNCHANGED notBarrier

\* barrier.wait() returns to a blocked party once the generation has changed.
BarrierRelease(i) ==
    /\ bpc[i] = "blocked"
    /\ bLocalGen[i] # barGen
    /\ bpc' = [bpc EXCEPT ![i] = "final"]
    /\ UNCHANGED <<mainpc, barCount, barGen, bSpawned, bJoined, bLocalGen, bLog>>
    /\ UNCHANGED notBarrier

\* println!("Thread {} passed barrier, doing final work"), then the sleep.
BarrierFinalWork(i) ==
    /\ bpc[i] = "final"
    /\ bLog' = Append(bLog, <<i, "final">>)
    /\ bpc' = [bpc EXCEPT ![i] = "complete"]
    /\ UNCHANGED <<mainpc, barCount, barGen, bSpawned, bJoined, bLocalGen>>
    /\ UNCHANGED notBarrier

\* println!("Thread {} completed"); the thread ends.
BarrierComplete(i) ==
    /\ bpc[i] = "complete"
    /\ bLog' = Append(bLog, <<i, "completed">>)
    /\ bpc' = [bpc EXCEPT ![i] = "done"]
    /\ UNCHANGED <<mainpc, barCount, barGen, bSpawned, bJoined, bLocalGen>>
    /\ UNCHANGED notBarrier

\* One round of `for handle in handles { handle.join().unwrap(); }`.
BarrierJoin ==
    /\ mainpc = "barrier_join"
    /\ bpc[bJoined] = "done"
    /\ bJoined' = bJoined + 1
    /\ mainpc' = IF bJoined + 1 < NumBarrierThreads THEN "barrier_join" ELSE "pc_create"
    /\ UNCHANGED <<barCount, barGen, bSpawned, bpc, bLocalGen, bLog>>
    /\ UNCHANGED notBarrier

(***************************************************************************)
(* Producer-Consumer Pattern.                                              *)
(***************************************************************************)
NumItems == 10

buffer_size == 5

\* An item numbered from 0.
ItemFromZero(i) == "Item " \o DecStr(i - 1)

\* format!("Item {}", i)
Item(i) == "Item " \o DecStr(i)

\* let (tx, rx) = mpsc::channel();
PcCreate ==
    /\ mainpc = "pc_create"
    /\ ch3' = NewChannel
    /\ mainpc' = "pc_spawn_producer"
    /\ UNCHANGED <<prodpc, prodI, conspc, consumed>>
    /\ UNCHANGED notProdCons

\* let producer = thread::spawn(move || ..): tx moves into the producer.
PcSpawnProducer ==
    /\ mainpc = "pc_spawn_producer"
    /\ prodpc' = "produce"
    /\ mainpc' = "pc_spawn_consumer"
    /\ UNCHANGED <<ch3, prodI, conspc, consumed>>
    /\ UNCHANGED notProdCons

\* let consumer = thread::spawn(move || ..): rx moves into the consumer.
PcSpawnConsumer ==
    /\ mainpc = "pc_spawn_consumer"
    /\ conspc' = "consume"
    /\ mainpc' = "pc_join_producer"
    /\ UNCHANGED <<ch3, prodpc, prodI, consumed>>
    /\ UNCHANGED notProdCons

\* A producer whose send waits for room in a buffer of buffer_size items.
PcProduceBounded ==
    /\ prodpc = "produce"
    /\ Len(ch3.q) < buffer_size
    /\ ch3' = ChSend(ch3, Item(prodI))
    /\ prodI' = prodI + 1
    /\ prodpc' = IF prodI < NumItems THEN "produce" ELSE "finish"
    /\ UNCHANGED <<mainpc, conspc, consumed>>
    /\ UNCHANGED notProdCons

\* One round of `for i in 1..=10`: format the item, print it, send it, sleep.
PcProduce ==
    /\ prodpc = "produce"
    /\ IF SendOk(ch3)
         THEN /\ ch3' = ChSend(ch3, Item(prodI))
              /\ prodI' = prodI + 1
              /\ prodpc' = IF prodI < NumItems THEN "produce" ELSE "finish"
         ELSE /\ prodpc' = "panicked"
              /\ ch3' = ChDropTx(ch3)
              /\ UNCHANGED prodI
    /\ UNCHANGED <<mainpc, conspc, consumed>>
    /\ UNCHANGED notProdCons

\* println!("Producer finished"); the closure returns, dropping tx.
PcProducerFinish ==
    /\ prodpc = "finish"
    /\ ch3' = ChDropTx(ch3)
    /\ prodpc' = "done"
    /\ UNCHANGED <<mainpc, prodI, conspc, consumed>>
    /\ UNCHANGED notProdCons

\* One round of `for received in rx`: print the item, then the sleep.
PcConsume ==
    /\ conspc = "consume"
    /\ RecvReady(ch3)
    /\ consumed' = Append(consumed, Head(ch3.q))
    /\ ch3' = ChPop(ch3)
    /\ UNCHANGED <<mainpc, prodpc, prodI, conspc>>
    /\ UNCHANGED notProdCons

\* The iteration ends on closure; println!("Consumer finished"); rx is dropped.
PcConsumerFinish ==
    /\ conspc = "consume"
    /\ RecvClosed(ch3)
    /\ ch3' = ChDropRx(ch3)
    /\ conspc' = "done"
    /\ UNCHANGED <<mainpc, prodpc, prodI, consumed>>
    /\ UNCHANGED notProdCons

\* producer.join().unwrap();
PcJoinProducer ==
    /\ mainpc = "pc_join_producer"
    /\ prodpc = "done"
    /\ mainpc' = "pc_join_consumer"
    /\ UNCHANGED <<ch3, prodpc, prodI, conspc, consumed>>
    /\ UNCHANGED notProdCons

\* Main goes on without waiting for the consumer.
PcDetachConsumer ==
    /\ mainpc = "pc_join_consumer"
    /\ mainpc' = "fib_spawn"
    /\ UNCHANGED <<ch3, prodpc, prodI, conspc, consumed>>
    /\ UNCHANGED notProdCons

\* consumer.join().unwrap();
PcJoinConsumer ==
    /\ mainpc = "pc_join_consumer"
    /\ conspc = "done"
    /\ mainpc' = "fib_spawn"
    /\ UNCHANGED <<ch3, prodpc, prodI, conspc, consumed>>
    /\ UNCHANGED notProdCons

(***************************************************************************)
(* Concurrent Data Processing: one thread per chunk of three elements,     *)
(* each pushing its chunk's sum into a vector behind a mutex.              *)
(***************************************************************************)
data == <<1, 2, 3, 4, 5, 6, 7, 8, 9, 10>>

chunk_size == 3

\* (0..data.len()).step_by(chunk_size): the start index of every chunk.
Starts == {s \in 0 .. Len(data) - 1 : s % chunk_size = 0}

NumChunks == Cardinality(Starts)

\* The main thread as a holder of a guard (the chunk threads are 0, 3, 6, 9).
MainThread == -1

Max(a, b) == IF a < b THEN b ELSE a

Min(a, b) == IF a < b THEN a ELSE b

\* std::cmp::min(start + chunk_size, data.len())
ChunkEnd(start) == Min(start + chunk_size, Len(data))

RECURSIVE SeqSum(_)
SeqSum(s) == IF s = <<>> THEN 0 ELSE Head(s) + SeqSum(Tail(s))

\* data[start..end].iter().sum(): the elements at the 0-based indices
\* start .. end-1.
ChunkSum(start) == SeqSum(SubSeq(data, start + 1, ChunkEnd(start)))

\* Arc::new(data), Arc::new(Mutex::new(vec![])).
DataCreate ==
    /\ mainpc = "data_create"
    /\ dResults' = <<>>
    /\ resLock' = {}
    /\ mainpc' = "data_spawn"
    /\ UNCHANGED <<dSpawned, dJoined, dpc, dsum, finalTotal>>
    /\ UNCHANGED notData

\* One round of `for start in (0..data.len()).step_by(chunk_size)`.
DataSpawn ==
    /\ mainpc = "data_spawn"
    /\ dSpawned < NumChunks
    /\ dpc' = [dpc EXCEPT ![dSpawned * chunk_size] = "compute"]
    /\ dSpawned' = dSpawned + 1
    /\ mainpc' = IF dSpawned + 1 < NumChunks THEN "data_spawn" ELSE "data_join"
    /\ UNCHANGED <<dResults, resLock, dJoined, dsum, finalTotal>>
    /\ UNCHANGED notData

\* The thread sums its chunk and prints it.
DataCompute(c) ==
    /\ dpc[c] = "compute"
    /\ dsum' = [dsum EXCEPT ![c] = ChunkSum(c)]
    /\ dpc' = [dpc EXCEPT ![c] = "lock"]
    /\ UNCHANGED <<mainpc, dResults, resLock, dSpawned, dJoined, finalTotal>>
    /\ UNCHANGED notData

\* results.lock().unwrap()
DataLock(c) ==
    /\ dpc[c] = "lock"
    /\ MutexFree(resLock)
    /\ resLock' = resLock \cup {c}
    /\ dpc' = [dpc EXCEPT ![c] = "push"]
    /\ UNCHANGED <<mainpc, dResults, dSpawned, dJoined, dsum, finalTotal>>
    /\ UNCHANGED notData

\* results.push(chunk_sum);
DataPush(c) ==
    /\ dpc[c] = "push"
    /\ dResults' = Append(dResults, dsum[c])
    /\ dpc' = [dpc EXCEPT ![c] = "unlock"]
    /\ UNCHANGED <<mainpc, resLock, dSpawned, dJoined, dsum, finalTotal>>
    /\ UNCHANGED notData

\* The closure ends: the guard is dropped and the thread terminates.
DataUnlock(c) ==
    /\ dpc[c] = "unlock"
    /\ resLock' = resLock \ {c}
    /\ dpc' = [dpc EXCEPT ![c] = "done"]
    /\ UNCHANGED <<mainpc, dResults, dSpawned, dJoined, dsum, finalTotal>>
    /\ UNCHANGED notData

\* One round of `for handle in handles { handle.join().unwrap(); }`.
DataJoin ==
    /\ mainpc = "data_join"
    /\ dpc[dJoined * chunk_size] = "done"
    /\ dJoined' = dJoined + 1
    /\ mainpc' = IF dJoined + 1 < NumChunks THEN "data_join" ELSE "data_print"
    /\ UNCHANGED <<dResults, resLock, dSpawned, dpc, dsum, finalTotal>>
    /\ UNCHANGED notData

\* let final_results = results.lock().unwrap(); the sum is printed.  The
\* guard final_results lives to the end of main().
DataPrint ==
    /\ mainpc = "data_print"
    /\ MutexFree(resLock)
    /\ resLock' = resLock \cup {MainThread}
    /\ finalTotal' = SeqSum(dResults)
    /\ mainpc' = "err_spawn"
    /\ UNCHANGED <<dResults, dSpawned, dJoined, dpc, dsum>>
    /\ UNCHANGED notData

(***************************************************************************)
(* Error Handling in Threads: three threads, the one with i = 1 panics;    *)
(* main matches on the result of every join.                               *)
(***************************************************************************)
NumErrThreads == 3

ErrThreads == 0 .. NumErrThreads - 1

PanickingThread == 1

ErrResult(i) == "Thread " \o DecStr(i) \o " completed successfully"

\* The line main prints for thread i: the Ok arm or the Err arm of the match.
ErrLine(i, outcome) ==
    IF outcome = "done"
      THEN "Thread " \o DecStr(i) \o ": " \o ErrResult(i)
      ELSE "Thread " \o DecStr(i) \o " panicked"

\* One element of (0..3).map(|i| thread::spawn(..)).collect().
ErrSpawn ==
    /\ mainpc = "err_spawn"
    /\ eSpawned < NumErrThreads
    /\ epc' = [epc EXCEPT ![eSpawned] = "run"]
    /\ eSpawned' = eSpawned + 1
    /\ mainpc' = IF eSpawned + 1 < NumErrThreads THEN "err_spawn" ELSE "err_join"
    /\ UNCHANGED <<eJoined, eret, eReport>>
    /\ UNCHANGED notErr

\* The closure: panic!() if i == 1, else return the formatted String.
ErrRun(i) ==
    /\ epc[i] = "run"
    /\ IF i = PanickingThread
         THEN /\ epc' = [epc EXCEPT ![i] = "panicked"]
              /\ UNCHANGED eret
         ELSE /\ epc' = [epc EXCEPT ![i] = "done"]
              /\ eret' = [eret EXCEPT ![i] = ErrResult(i)]
    /\ UNCHANGED <<mainpc, eSpawned, eJoined, eReport>>
    /\ UNCHANGED notErr

\* A join loop that unwraps the result of join().
ErrJoinUnwrap ==
    /\ mainpc = "err_join"
    /\ epc[eJoined] \in {"done", "panicked"}
    /\ IF epc[eJoined] = "done"
         THEN /\ eReport' = Append(eReport, ErrLine(eJoined, "done"))
              /\ eJoined' = eJoined + 1
              /\ mainpc' = IF eJoined + 1 < NumErrThreads THEN "err_join"
                                                         ELSE "barrier_create"
         ELSE /\ mainpc' = "panicked"
              /\ UNCHANGED <<eReport, eJoined>>
    /\ UNCHANGED <<eSpawned, epc, eret>>
    /\ UNCHANGED notErr

\* One round of `for (i, handle) in handles.into_iter().enumerate()`:
\* match handle.join() { Ok(result) => .., Err(_) => .. }.
ErrJoin ==
    /\ mainpc = "err_join"
    /\ epc[eJoined] \in {"done", "panicked"}
    /\ eReport' = Append(eReport, ErrLine(eJoined, epc[eJoined]))
    /\ eJoined' = eJoined + 1
    /\ mainpc' = IF eJoined + 1 < NumErrThreads THEN "err_join" ELSE "barrier_create"
    /\ UNCHANGED <<eSpawned, epc, eret>>
    /\ UNCHANGED notErr

(***************************************************************************)
(* Concurrent Calculations: one thread per element of numbers, each        *)
(* returning (num, fibonacci(num), duration); main joins them in spawn     *)
(* order and then prints the closing "Key Takeaways" lines.  The measured  *)
(* duration plays no part in the control flow and is left out.             *)
(***************************************************************************)
numbers == <<35, 36, 37, 38>>

FibThreads == 1 .. Len(numbers)

\* FibFrom(k, a, b): the value k places after a in the sequence that goes
\* on a, b, a + b, ..
RECURSIVE FibFrom(_, _, _)
FibFrom(k, a, b) == IF k = 0 THEN a ELSE FibFrom(k - 1, b, a + b)

\* fn fibonacci(n: u32) -> u64: 0, 1, then the sum of the two values before.
\* The source recurses on n - 1 and on n - 2; the same values are computed
\* here in a single pass from 0 and 1.
fibonacci(n) == FibFrom(n, 0, 1)

\* What the thread of numbers[i] computes.
FibResults == [i \in FibThreads |-> fibonacci(numbers[i])]

\* One round of `for num in numbers { handles.push(thread::spawn(..)) }`.
FibSpawn ==
    /\ mainpc = "fib_spawn"
    /\ fSpawned < Len(numbers)
    /\ fibpc' = [fibpc EXCEPT ![fSpawned + 1] = "run"]
    /\ fSpawned' = fSpawned + 1
    /\ mainpc' = IF fSpawned + 1 < Len(numbers) THEN "fib_spawn" ELSE "fib_join"
    /\ UNCHANGED <<fJoined, fibret, fibReport>>
    /\ UNCHANGED notFib

\* The closure: (num, fibonacci(num), duration).
FibRun(i) ==
    /\ fibpc[i] = "run"
    /\ fibret' = [fibret EXCEPT ![i] = <<numbers[i], FibResults[i]>>]
    /\ fibpc' = [fibpc EXCEPT ![i] = "done"]
    /\ UNCHANGED <<mainpc, fSpawned, fJoined, fibReport>>
    /\ UNCHANGED notFib

\* One round of `for handle in handles`: handle.join().unwrap(), println!.
FibJoin ==
    /\ mainpc = "fib_join"
    /\ fibpc[fJoined + 1] = "done"
    /\ fibReport' = Append(fibReport, fibret[fJoined + 1])
    /\ fJoined' = fJoined + 1
    /\ mainpc' = IF fJoined + 1 < Len(numbers) THEN "fib_join" ELSE "takeaways"
    /\ UNCHANGED <<fSpawned, fibpc, fibret>>
    /\ UNCHANGED notFib

\* The closing println!s of main(); main returns.
Takeaways ==
    /\ mainpc = "takeaways"
    /\ mainpc' = "end"
    /\ UNCHANGED fibVars
    /\ UNCHANGED notFib

(***************************************************************************)
(* The state in which each vignette starts.                                *)
(***************************************************************************)
InitThreads ==
    /\ tSpawned = 0
    /\ tJoined = 0
    /\ tpc = [i \in Threads |-> "idle"]
    /\ tret = [i \in Threads |-> ""]
    /\ tLog = <<>>
    /\ results = <<>>

\* The three workers joined and their results collected (the lines printed
\* in the order the workers' sleeps suggest).
AfterThreads ==
    /\ tSpawned = NumThreads
    /\ tJoined = NumThreads
    /\ tpc = [i \in Threads |-> "done"]
    /\ tret = [i \in Threads |-> ThreadResult(i)]
    /\ tLog = <<<<0, "starting">>, <<1, "starting">>, <<2, "starting">>,
                 <<0, "finished">>, <<1, "finished">>, <<2, "finished">>>>
    /\ results = [n \in 1 .. NumThreads |-> ThreadResult(n - 1)]

InitChan1 ==
    /\ ch1 = NoChannel
    /\ p1pc = "idle"
    /\ p1i = 1
    /\ received = <<>>

\* The four messages received, rx dropped, the producer terminated.
AfterChan1 ==
    /\ ch1 = NoChannel
    /\ p1pc = "done"
    /\ p1i = Len(messages) + 1
    /\ received = messages

InitFan ==
    /\ ch2 = NoChannel
    /\ fanI = 0
    /\ fpc = [i \in Producers |-> "idle"]
    /\ fj = [i \in Producers |-> 0]
    /\ all_messages = <<>>

\* The nine messages received (the producers taking turns), rx dropped, the
\* producers terminated.
AfterFan ==
    /\ ch2 = NoChannel
    /\ fanI = NumProducers
    /\ fpc = [i \in Producers |-> "done"]
    /\ fj = [i \in Producers |-> MsgsPerProducer]
    /\ all_messages = [n \in 1 .. NumProducers * MsgsPerProducer |->
                         FanMsg((n - 1) % NumProducers, (n - 1) \div NumProducers)]

\* Arc::new(Mutex::new(0)); nothing printed yet (-1).
InitCounter ==
    /\ counter = 0
    /\ counterLock = {}
    /\ counterPoisoned = FALSE
    /\ cSpawned = 0
    /\ cJoined = 0
    /\ cpc = [w \in CounterWorkers |-> "idle"]
    /\ ck = [w \in CounterWorkers |-> 0]
    /\ cnum = [w \in CounterWorkers |-> 0]
    /\ finalCounter = -1

InitPool ==
    /\ jobCh = NoChannel
    /\ rxLock = {}
    /\ wSpawned = 0
    /\ jobNext = 1
    /\ wJoined = 0
    /\ wpc = [w \in PoolWorkers |-> "idle"]
    /\ wjob = [w \in PoolWorkers |-> 0]
    /\ recvLog = <<>>
    /\ processing = [j \in Jobs |-> <<>>]
    /\ completed = [j \in Jobs |-> <<>>]

InitBarrier ==
    /\ barCount = 0
    /\ barGen = 0
    /\ bSpawned = 0
    /\ bJoined = 0
    /\ bpc = [i \in BarrierThreads |-> "idle"]
    /\ bLocalGen = [i \in BarrierThreads |-> 0]
    /\ bLog = <<>>

InitProdCons ==
    /\ ch3 = NoChannel
    /\ prodpc = "idle"
    /\ prodI = 1
    /\ conspc = "idle"
    /\ consumed = <<>>

InitData ==
    /\ dResults = <<>>
    /\ resLock = {}
    /\ dSpawned = 0
    /\ dJoined = 0
    /\ dpc = [c \in Starts |-> "idle"]
    /\ dsum = [c \in Starts |-> 0]
    /\ finalTotal = -1

InitErr ==
    /\ eSpawned = 0
    /\ eJoined = 0
    /\ epc = [i \in ErrThreads |-> "idle"]
    /\ eret = [i \in ErrThreads |-> ""]
    /\ eReport = <<>>

InitFib ==
    /\ fSpawned = 0
    /\ fJoined = 0
    /\ fibpc = [i \in FibThreads |-> "idle"]
    /\ fibret = [i \in FibThreads |-> <<>>]
    /\ fibReport = <<>>

\* Game::new()
InitGame ==
    /\ state = "Menu"
    /\ prevState = "Menu"
    /\ gameCalls = <<>>

\* Counter::new()
InitIter ==
    /\ current = 0
    /\ nextOut = <<>>

\* examples/12_testing.rs is another program: while the concurrency example
\* runs, none of its calls has been made.
NoTesting ==
    /\ calcA = 0
    /\ calcB = 0
    /\ calcOut = [tag |-> "None"]
    /\ text = <<>>
    /\ textDone = {}
    /\ revOnce = <<>>
    /\ revTwice = <<>>
    /\ palOut = FALSE

\* Nor has any call been made on the objects of the other examples.
NoOtherPrograms ==
    /\ NoTesting
    /\ InitGame
    /\ InitIter

\* The vignettes after the worker pool, not started.
InitLater ==
    /\ InitData
    /\ InitErr
    /\ InitFib
    /\ NoOtherPrograms

(***************************************************************************)
(* Multiple Threads, then Channels for Communication, as main() runs them. *)
(***************************************************************************)
InitThreadsVignette ==
    /\ mainpc = "threads_spawn"
    /\ InitThreads
    /\ InitChan1
    /\ InitFan
    /\ InitCounter
    /\ InitPool
    /\ InitBarrier
    /\ InitProdCons
    /\ InitLater

NextThreads ==
    \/ ThreadSpawn
    \/ \E i \in Threads : ThreadStart(i)
    \/ \E i \in Threads : ThreadFinish(i)
    \/ ThreadJoin
    \/ ChanCreate
    \/ ChanSpawn
    \/ ChanSend
    \/ ChanDropTx
    \/ ChanExit
    \/ ChanRecv
    \/ ChanRecvEnd

SpecThreads == InitThreadsVignette /\ [][NextThreads]_vars

IsPrefix(s, t) == Len(s) <= Len(t) /\ s = SubSeq(t, 1, Len(s))

ChanLoopEnded == mainpc = "fan_create"

\* C4: main receives exactly "Hello", "from", "the", "thread" in that order:
\* what it has printed is always a prefix of the messages (nothing lost,
\* duplicated or reordered), the producer's send never fails, and the receive
\* loop has ended only with all four printed and the producer's sender dropped.
C4_SingleProducerFifo ==
    /\ IsPrefix(received, messages)
    /\ p1pc # "panicked"
    /\ ChanLoopEnded =>
         /\ received = <<"Hello", "from", "the", "thread">>
         /\ p1pc \in {"exiting", "done"}

C4_Witness ==
    /\ mainpc = "fan_create"
    /\ Len(received) = 4
    /\ received[4] = "thread"

\* The workers main has spawned: those that have left "idle".
SpawnedThreads == {i \in Threads : tpc[i] # "idle"}

\* Main is past the join loop of Multiple Threads.
ThreadsJoined == mainpc \notin {"threads_spawn", "threads_join", "panicked"}

\* C23: exactly three workers are spawned; main reaches the end of the
\* vignette only after all three have finished and been joined; a handle
\* counts as joined only when its worker has finished.
C23_AllJoinedBeforeEnd ==
    /\ Cardinality(SpawnedThreads) = tSpawned
    /\ tSpawned <= NumThreads
    /\ \A i \in Threads : i < tJoined => tpc[i] = "done"
    /\ mainpc # "threads_spawn" => tSpawned = NumThreads
    /\ ThreadsJoined =>
         /\ tJoined = NumThreads
         /\ \A i \in Threads : tpc[i] = "done"
         /\ Len(tLog) = 2 * NumThreads

\* The workers ran one after the other, the last-spawned first: their own
\* steps are in no fixed order.
C23_Witness ==
    /\ ThreadsJoined
    /\ tLog = <<<<2, "starting">>, <<2, "finished">>, <<1, "starting">>,
                 <<1, "finished">>, <<0, "starting">>, <<0, "finished">>>>

\* What main collects: the results of workers 0, 1, 2 in spawn order.
ResultsInSpawnOrder == [n \in 1 .. NumThreads |-> ThreadResult(n - 1)]

\* C25: the vector results is always the results of the workers in spawn
\* order, whatever order the workers finish in: at any time it is a prefix
\* of [result 0, result 1, result 2], and all of it once main is past the
\* join loop.
C25_ResultsInSpawnOrder ==
    /\ IsPrefix(results, ResultsInSpawnOrder)
    /\ Len(results) = tJoined
    /\ ThreadsJoined => results = ResultsInSpawnOrder

\* The workers finished in the order 2, 1, 0; the results are in order 0, 1, 2.
C25_Witness ==
    /\ ThreadsJoined
    /\ tLog = <<<<0, "starting">>, <<1, "starting">>, <<2, "starting">>,
                 <<2, "finished">>, <<1, "finished">>, <<0, "finished">>>>
    /\ results = <<"Result from thread 0", "Result from thread 1",
                   "Result from thread 2">>

(***************************************************************************)
(* Multiple Threads with a worker that may fail: any println! of a worker  *)
(* may panic.                                                              *)
(***************************************************************************)
NextThreadsFaulty ==
    \/ NextThreads
    \/ \E i \in Threads : ThreadPanic(i)

SpecThreadsFaulty == InitThreadsVignette /\ [][NextThreadsFaulty]_vars

ThreadsLoopEnded == mainpc \notin {"threads_spawn", "threads_join"}

\* C12: if a worker of Multiple Threads terminates abnormally, main observes
\* the failure at the join and reports it without dying itself, and it still
\* joins all three workers and collects the result of every worker that
\* finished.
C12_WorkerFailureTolerated ==
    (\E i \in Threads : tpc[i] = "panicked") =>
        /\ mainpc # "panicked"
        /\ ThreadsLoopEnded =>
              /\ tJoined = NumThreads
              /\ \A i \in Threads : tpc[i] = "done" =>
                    \E n \in 1 .. Len(results) : results[n] = ThreadResult(i)

(***************************************************************************)
(* Multiple Producers, from the state in which main reaches it.            *)
(***************************************************************************)
InitFanIn ==
    /\ mainpc = "fan_create"
    /\ AfterThreads
    /\ AfterChan1
    /\ InitFan
    /\ InitCounter
    /\ InitPool
    /\ InitBarrier
    /\ InitProdCons
    /\ InitLater

NextFanIn ==
    \/ FanCreate
    \/ FanSpawn
    \/ FanDropOriginal
    \/ \E i \in Producers : FanSend(i)
    \/ \E i \in Producers : FanDropClone(i)
    \/ \E i \in Producers : FanExit(i)
    \/ FanRecv
    \/ FanRecvEnd

SpecFanIn == InitFanIn /\ [][NextFanIn]_vars

\* The same without the teardown of a producer whose closure has returned
\* (FanExit), which touches nothing that main or the channel reads.
NextFanInLive ==
    \/ FanCreate
    \/ FanSpawn
    \/ FanDropOriginal
    \/ \E i \in Producers : FanSend(i)
    \/ \E i \in Producers : FanDropClone(i)
    \/ FanRecv
    \/ FanRecvEnd

\* Fair scheduling: while some thread can take a step, a step is taken.
FairFanIn == InitFanIn /\ [][NextFanInLive]_vars /\ WF_vars(NextFanInLive)

FanLoopEnded == mainpc = "counter_create"

\* The messages of producer i among those of seq, in the order they have there.
SentBy == [i \in Producers |-> [n \in 1 .. MsgsPerProducer |-> FanMsg(i, n - 1)]]

SentSet == [i \in Producers |-> {SentBy[i][n] : n \in 1 .. MsgsPerProducer}]

FromProducer(seq, i) == SelectSeq(seq, LAMBDA m : m \in SentSet[i])

\* C5: main receives exactly 9 messages, and the messages of each producer
\* appear among them in the order j = 0, 1, 2 in which it sent them.
C5_FanInCountAndOrder ==
    /\ \A i \in Producers : IsPrefix(FromProducer(all_messages, i), SentBy[i])
    /\ \A i \in Producers : fpc[i] # "panicked"
    /\ FanLoopEnded =>
         /\ Len(all_messages) = NumProducers * MsgsPerProducer
         /\ \A i \in Producers : FromProducer(all_messages, i) = SentBy[i]

\* All nine received, and not producer by producer: the streams interleave.
C5_Witness ==
    /\ FanLoopEnded
    /\ Len(all_messages) = 9
    /\ all_messages[1] = "Producer 2 message 0"
    /\ all_messages[2] = "Producer 0 message 0"
    /\ all_messages[9] = "Producer 1 message 2"

\* The Sender handles alive: the original tx in main and the clones the
\* producers still own.
FanLiveSenders ==
    (IF mainpc = "fan_spawn" THEN 1 ELSE 0)
      + Cardinality({i \in Producers : fpc[i] \in {"send", "drop"}})

FanProducersFinished == \A i \in Producers : fpc[i] \in {"exiting", "done"}

\* C6: the channel's sender count is the number of live handles (tx and the
\* clones); main's drain loop ends only in a step taken with every clone
\* dropped and the queue empty; and once all producers have finished the loop
\* does end.
C6_FanInClosure ==
    /\ [](mainpc \in {"fan_spawn", "fan_recv"} => ch2.senders = FanLiveSenders)
    /\ [][mainpc = "fan_recv" /\ mainpc' = "counter_create" =>
            FanProducersFinished /\ ch2.q = <<>> /\ ch2.senders = 0]_vars
    /\ (FanProducersFinished ~> FanLoopEnded)

\* The loop has ended although a producer had finished, clone dropped, while
\* main was still spawning and held tx.
C6_Witness ==
    /\ FanLoopEnded
    /\ FanProducersFinished
    /\ ch2.senders = 0

(***************************************************************************)
(* Shared State with Mutex, from the state in which main reaches it.       *)
(***************************************************************************)
InitCounterVignette ==
    /\ mainpc = "counter_create"
    /\ AfterThreads
    /\ AfterChan1
    /\ AfterFan
    /\ InitCounter
    /\ InitPool
    /\ InitBarrier
    /\ InitProdCons
    /\ InitLater

NextCounter ==
    \/ CounterCreate
    \/ CounterSpawn
    \/ \E w \in CounterWorkers : CounterLock(w)
    \/ \E w \in CounterWorkers : CounterRead(w)
    \/ \E w \in CounterWorkers : CounterWrite(w)
    \/ \E w \in CounterWorkers : CounterUnlock(w)
    \/ \E w \in CounterWorkers : CounterFinish(w)
    \/ CounterJoin
    \/ CounterPrint

SpecCounter == InitCounterVignette /\ [][NextCounter]_vars

RECURSIVE SumUpTo(_, _)
SumUpTo(f, n) == IF n < 0 THEN 0 ELSE f[n] + SumUpTo(f, n - 1)

\* Stores done: the finished rounds, and the round of a worker that has stored
\* and still holds the guard.
StoresDone ==
    SumUpTo(ck, NumCounterWorkers - 1)
      + Cardinality({w \in CounterWorkers : cpc[w] = "unlock"})

\* C1: no update is lost: the counter always equals the number of stores done,
\* and the value main prints after joining the workers is the number of
\* workers times the increments of each (5 * 1000 in the program).
C1_NoLostUpdate ==
    /\ counter = StoresDone
    /\ finalCounter # -1 => finalCounter = NumCounterWorkers * Increments

C1_Witness ==
    /\ mainpc = "pool_create"
    /\ cJoined = NumCounterWorkers
    /\ finalCounter = NumCounterWorkers * Increments

\* The workers inside their critical section: between lock() and the drop of
\* the guard.
InCounterSection == {w \in CounterWorkers : cpc[w] \in {"read", "write", "unlock"}}

\* C17: at most one worker holds the counter's guard; a worker is in its
\* read-increment-write cycle exactly while it holds the guard; the value a
\* worker has loaded is still the counter's value when it stores (no other
\* critical section comes between), so the sections are totally ordered and
\* each starts from the value the previous one wrote; main takes the guard
\* only when no worker holds it.
C17_CounterMutualExclusion ==
    /\ Cardinality(counterLock) <= 1
    /\ counterLock = InCounterSection
    /\ \A w \in CounterWorkers : cpc[w] = "write" => cnum[w] = counter
    /\ counter = StoresDone
    /\ mainpc = "counter_print" => counterLock = {}

C17_Witness ==
    \E w, v \in CounterWorkers :
        /\ w # v
        /\ cpc[w] = "write"
        /\ counterLock = {w}
        /\ cnum[w] = counter
        /\ counter > 0
        /\ cpc[v] = "lock"
        /\ ck[v] > 0

(***************************************************************************)
(* Shared State with Mutex with a worker that may fail at its println!.    *)
(***************************************************************************)
NextCounterFaulty ==
    \/ NextCounter
    \/ \E w \in CounterWorkers : CounterPanic(w)

SpecCounterFaulty == InitCounterVignette /\ [][NextCounterFaulty]_vars

\* C13: a failure of a task is handled where main joins it and main still
\* runs the vignettes that follow: a failed worker of Shared State with Mutex
\* never makes main itself die.
C13_FailureNeverAbortsMain ==
    (\E w \in CounterWorkers : cpc[w] = "panicked") => mainpc # "panicked"

(***************************************************************************)
(* Shared State with Mutex with a worker that may fail while it holds the  *)
(* guard.                                                                  *)
(***************************************************************************)
NextCounterPoison ==
    \/ NextCounter
    \/ \E w \in CounterWorkers : CounterPanicHolding(w)

SpecCounterPoison == InitCounterVignette /\ [][NextCounterPoison]_vars

\* Main is through with the vignette, or dead.
CounterEnded == mainpc \in {"pool_create", "panicked"}

\* C22: the guard of an increment cycle is released on every exit path, the
\* panic of its holder included: a panicked worker holds no guard and the
\* holders are exactly the workers inside a cycle; no worker is left blocked:
\* a worker at lock() can proceed whenever nobody holds the guard, and some
\* task can always take a step until main is through; once the mutex is
\* poisoned nobody is inside a cycle any more, and an acquisition fails only
\* on a poisoned mutex and only for the worker that attempts it.
C22_GuardReleasedOnPanic ==
    /\ [](/\ \A w \in CounterWorkers : cpc[w] = "panicked" => w \notin counterLock
          /\ counterLock = InCounterSection
          /\ Cardinality(counterLock) <= 1
          /\ \A w \in CounterWorkers :
               (cpc[w] = "lock" /\ counterLock = {}) => ENABLED CounterLock(w)
          /\ CounterEnded \/ ENABLED NextCounterPoison
          /\ counterPoisoned => InCounterSection = {})
    /\ [][\A w \in CounterWorkers :
            (cpc[w] = "lock" /\ cpc'[w] = "panicked") =>
               /\ counterPoisoned
               /\ \A v \in CounterWorkers \ {w} : cpc'[v] = cpc[v]]_vars

\* A worker panicked holding the guard, a second one panicked at its next
\* lock(), a third had finished before and is untouched; the mutex is free.
C22_Witness ==
    /\ counterPoisoned
    /\ counterLock = {}
    /\ \E w, v, u \in CounterWorkers :
         /\ w # v
         /\ cpc[w] = "panicked" /\ ck[w] = 0
         /\ cpc[v] = "panicked" /\ ck[v] > 0
         /\ cpc[u] = "done"

(***************************************************************************)
(* Worker Pool Pattern, from the state in which main reaches it.           *)
(***************************************************************************)
\* The counter at the bound, every worker joined, the value printed.
AfterCounter ==
    /\ counter = NumCounterWorkers * Increments
    /\ counterLock = {}
    /\ counterPoisoned = FALSE
    /\ cSpawned = NumCounterWorkers
    /\ cJoined = NumCounterWorkers
    /\ cpc = [w \in CounterWorkers |-> "done"]
    /\ ck = [w \in CounterWorkers |-> Increments]
    /\ cnum = [w \in CounterWorkers |-> 0]
    /\ finalCounter = NumCounterWorkers * Increments

InitPoolVignette ==
    /\ mainpc = "pool_create"
    /\ AfterThreads
    /\ AfterChan1
    /\ AfterFan
    /\ AfterCounter
    /\ InitPool
    /\ InitBarrier
    /\ InitProdCons
    /\ InitLater

NextPool ==
    \/ PoolCreate
    \/ PoolSpawn
    \/ PoolSendJob
    \/ PoolDropTx
    \/ \E w \in PoolWorkers : PoolLock(w)
    \/ \E w \in PoolWorkers : PoolRecv(w)
    \/ \E w \in PoolWorkers : PoolRecvClosed(w)
    \/ \E w \in PoolWorkers : PoolProcess(w)
    \/ \E w \in PoolWorkers : PoolComplete(w)
    \/ \E w \in PoolWorkers : PoolShutdown(w)
    \/ PoolJoin

SpecPool == InitPoolVignette /\ [][NextPool]_vars

\* Fair scheduling: while some thread can take a step, a step is taken.
FairPool == SpecPool /\ WF_vars(NextPool)

PoolAllJoined == mainpc = "data_create"

\* The workers that received job j, one entry for every receive of it.
ReceiversOf(j) == SelectSeq(recvLog, LAMBDA e : e[2] = j)

\* C2: every job id 1..6 is received by at most one worker at any time, only
\* its receiver processes it, and when all workers are joined every id has
\* been received, processed and completed exactly once, by one worker.
C2_EachJobExactlyOnce ==
    /\ \A j \in Jobs :
         /\ Len(ReceiversOf(j)) <= 1
         /\ Len(processing[j]) <= Len(ReceiversOf(j))
         /\ Len(completed[j]) <= Len(processing[j])
         /\ \A n \in 1 .. Len(processing[j]) : processing[j][n] = ReceiversOf(j)[n][1]
         /\ \A n \in 1 .. Len(completed[j]) : completed[j][n] = processing[j][n]
    /\ \A n \in 1 .. Len(recvLog) : recvLog[n][2] \in Jobs
    /\ PoolAllJoined =>
         \A j \in Jobs :
           /\ Len(ReceiversOf(j)) = 1
           /\ Len(processing[j]) = 1
           /\ Len(completed[j]) = 1

\* All six jobs done, and not all by the same worker.
C2_Witness ==
    /\ PoolAllJoined
    /\ Len(recvLog) = NumJobs
    /\ recvLog[1][1] # recvLog[2][1]
    /\ \A j \in Jobs : Len(completed[j]) = 1

\* Main has sent the six jobs and gone past drop(job_tx).
PoolSentAndDropped == mainpc = "pool_join"

\* C3: once main has sent the six jobs and dropped job_tx, every worker
\* eventually terminates and main's joins complete; a worker leaves its loop
\* only through the closure signal.
C3_PoolTerminates ==
    /\ PoolSentAndDropped ~> (PoolAllJoined /\ \A w \in PoolWorkers : wpc[w] = "done")
    /\ [][\A w \in PoolWorkers :
            wpc'[w] = "done" /\ wpc[w] # "done" => wpc[w] = "shutdown"]_vars
    /\ [][\A w \in PoolWorkers :
            wpc'[w] = "shutdown" /\ wpc[w] # "shutdown" =>
              wpc[w] = "recv" /\ RecvClosed(jobCh)]_vars

\* Main waits in join while a worker still blocks in recv holding the guard
\* and another waits for the guard, the channel closed.
C3_Witness ==
    /\ PoolSentAndDropped
    /\ jobCh.senders = 0
    /\ \E w \in PoolWorkers : wpc[w] = "recv"
    /\ \E w \in PoolWorkers : wpc[w] = "lock"

\* The workers in a receive attempt: between lock() and the end of the
\* statement `let job = rx.lock().unwrap().recv();`.
InRecvAttempt == {w \in PoolWorkers : wpc[w] = "recv"}

\* The workers between their "processing job" and "completed job" lines.
ProcessingJob == {w \in PoolWorkers : wpc[w] = "complete"}

\* C20: a worker holds the receiver's guard exactly during one receive
\* attempt; it holds no guard once it has a job, before and while it
\* processes it; so while a worker is processing and nobody is in a receive
\* attempt, any waiting worker can take the guard.
C20_GuardOnlyDuringRecv ==
    /\ rxLock = InRecvAttempt
    /\ Cardinality(rxLock) <= 1
    /\ \A w \in PoolWorkers : wpc[w] \in {"process", "complete"} =>
          w \notin rxLock /\ wjob[w] \in Jobs
    /\ \A w \in ProcessingJob : \A v \in PoolWorkers :
          (wpc[v] = "lock" /\ InRecvAttempt = {}) => ENABLED PoolLock(v)

\* Worker v has taken the guard and received the next job while worker w is
\* still processing the previous one.
C20_Witness ==
    \E w, v \in PoolWorkers :
        /\ w # v
        /\ wpc[w] = "complete"
        /\ wpc[v] = "process"
        /\ wjob[v] = wjob[w] + 1
        /\ rxLock = {}

\* The workers that got the closure signal: past the Err arm of the match.
ShutDown == {w \in PoolWorkers : wpc[w] \in {"shutdown", "done"}}

\* C21: a worker gets the closure signal only when main has dropped job_tx
\* and the queue is empty: no worker shuts down before all six jobs have been
\* taken from the queue, and a worker that has got the signal holds no job and
\* has completed every job it received, so it processes nothing further.
C21_ClosureOnlyWhenDrained ==
    \A w \in ShutDown :
        /\ mainpc \in {"pool_join", "data_create"}
        /\ jobCh.senders = 0
        /\ jobCh.q = <<>>
        /\ Len(recvLog) = NumJobs
        /\ wjob[w] = 0
        /\ \A n \in 1 .. Len(recvLog) :
             recvLog[n][1] = w => completed[recvLog[n][2]] = <<w>>

\* One worker has shut down while another is still processing its job.
C21_Witness ==
    \E w, v \in PoolWorkers :
        /\ w \in ShutDown
        /\ wpc[v] = "complete"
        /\ wjob[v] = NumJobs

\* C28: at most one worker is inside recv at any time, the others that want
\* to receive wait for the guard; the successful receives, in the order they
\* happen, obtain the job ids 1, 2, .., 6 in send order, whichever workers
\* perform them.
C28_ReceivesInSendOrder ==
    /\ Cardinality(InRecvAttempt) <= 1
    /\ \A w \in InRecvAttempt : \A v \in PoolWorkers :
         wpc[v] = "lock" => ~ ENABLED PoolLock(v)
    /\ Len(recvLog) <= NumJobs
    /\ \A n \in 1 .. Len(recvLog) : recvLog[n][2] = n

\* All six jobs received in send order, the first by the worker spawned last
\* and two in a row by the same worker.
C28_Witness ==
    /\ Len(recvLog) = NumJobs
    /\ recvLog[1][1] = NumPoolWorkers - 1
    /\ recvLog[2][1] = recvLog[3][1]
    /\ \A n \in 1 .. NumJobs : recvLog[n][2] = n

(***************************************************************************)
(* Concurrent Data Processing, then Error Handling in Threads, from a     *)
(* state in which main reaches them.                                       *)
(***************************************************************************)
\* The six jobs done (the workers taking turns), the workers joined; the
\* receiver lives on in main's Arc.
AfterPool ==
    /\ jobCh = [q |-> <<>>, senders |-> 0, rcv |-> TRUE]
    /\ rxLock = {}
    /\ wSpawned = NumPoolWorkers
    /\ jobNext = NumJobs + 1
    /\ wJoined = NumPoolWorkers
    /\ wpc = [w \in PoolWorkers |-> "done"]
    /\ wjob = [w \in PoolWorkers |-> 0]
    /\ recvLog = [n \in 1 .. NumJobs |-> <<(n - 1) % NumPoolWorkers, n>>]
    /\ processing = [j \in Jobs |-> <<(j - 1) % NumPoolWorkers>>]
    /\ completed = [j \in Jobs |-> <<(j - 1) % NumPoolWorkers>>]

InitDataVignette ==
    /\ mainpc = "data_create"
    /\ AfterThreads
    /\ AfterChan1
    /\ AfterFan
    /\ AfterCounter
    /\ AfterPool
    /\ InitBarrier
    /\ InitProdCons
    /\ InitLater

NextDataErr ==
    \/ DataCreate
    \/ DataSpawn
    \/ \E c \in Starts : DataCompute(c)
    \/ \E c \in Starts : DataLock(c)
    \/ \E c \in Starts : DataPush(c)
    \/ \E c \in Starts : DataUnlock(c)
    \/ DataJoin
    \/ DataPrint
    \/ ErrSpawn
    \/ \E i \in ErrThreads : ErrRun(i)
    \/ ErrJoin

SpecDataErr == InitDataVignette /\ [][NextDataErr]_vars

\* The chunks that hold the element at 0-based index idx.
ChunksOf(idx) == {c \in Starts : c <= idx /\ idx < ChunkEnd(c)}

\* The values in the shared vector.
ResultSet == {dResults[n] : n \in 1 .. Len(dResults)}

\* C26: the ten elements are split into the four chunks [0,3), [3,6), [6,9),
\* [9,10): every index is in exactly one chunk and the last chunk is clipped
\* to the length of the data; a thread pushes the sum of its own chunk; when
\* all four threads are joined the vector holds exactly four sums, a
\* permutation of 6, 15, 24, 10, and the total main prints is 55.
C26_ChunksPartitionAndSum ==
    /\ Starts = {0, 3, 6, 9}
    /\ \A c \in Starts : ChunkEnd(c) = (IF c = 9 THEN 10 ELSE c + 3)
    /\ \A idx \in 0 .. Len(data) - 1 : Cardinality(ChunksOf(idx)) = 1
    /\ ResultSet \subseteq {6, 15, 24, 10}
    /\ Cardinality(ResultSet) = Len(dResults)
    /\ dJoined = NumChunks => Len(dResults) = 4 /\ ResultSet = {6, 15, 24, 10}
    /\ finalTotal # -1 => finalTotal = 55

\* The threads pushed in the reverse of the order they were spawned in.
C26_Witness ==
    /\ mainpc = "err_spawn"
    /\ dJoined = NumChunks
    /\ dResults = <<10, 24, 15, 6>>
    /\ finalTotal = 55

\* What main prints when it has matched on all three joins.
ErrExpected == [n \in 1 .. NumErrThreads |->
                  ErrLine(n - 1, IF n - 1 = PanickingThread THEN "panicked" ELSE "done")]

ErrLoopEnded == mainpc = "barrier_create"

\* C11: in Error Handling in Threads exactly thread 1 panics and threads 0
\* and 2 return "Thread i completed successfully"; main sees the panic as the
\* Err of join() and reports each outcome in thread-id order (what it has
\* printed is always a prefix of the three expected lines); main itself never
\* panics and goes on to the next vignette with all three lines printed.
C11_PanicIsolatedAtJoin ==
    /\ \A i \in ErrThreads :
         /\ epc[i] = "panicked" => i = PanickingThread
         /\ epc[i] = "done" => i # PanickingThread /\ eret[i] = ErrResult(i)
    /\ IsPrefix(eReport, ErrExpected)
    /\ Len(eReport) = eJoined
    /\ mainpc # "panicked"
    /\ ErrLoopEnded => eReport = ErrExpected

C11_Witness ==
    /\ ErrLoopEnded
    /\ epc[PanickingThread] = "panicked"
    /\ eReport = <<"Thread 0: Thread 0 completed successfully",
                   "Thread 1 panicked",
                   "Thread 2: Thread 2 completed successfully">>

\* The four chunk sums pushed (the threads finishing in the order they were
\* spawned) and summed; main keeps the guard final_results.
AfterData ==
    /\ dResults = <<ChunkSum(0), ChunkSum(3), ChunkSum(6), ChunkSum(9)>>
    /\ resLock = {MainThread}
    /\ dSpawned = NumChunks
    /\ dJoined = NumChunks
    /\ dpc = [c \in Starts |-> "done"]
    /\ dsum = [c \in Starts |-> ChunkSum(c)]
    /\ finalTotal = SeqSum(data)

\* The three outcomes reported.
AfterErr ==
    /\ eSpawned = NumErrThreads
    /\ eJoined = NumErrThreads
    /\ epc = [i \in ErrThreads |-> IF i = PanickingThread THEN "panicked" ELSE "done"]
    /\ eret = [i \in ErrThreads |-> IF i = PanickingThread THEN "" ELSE ErrResult(i)]
    /\ eReport = ErrExpected

(***************************************************************************)
(* The two vignettes whose producers main never joins (Channels for       *)
(* Communication, Multiple Producers) and two whose tasks it joins         *)
(* (Concurrent Data Processing, Error Handling in Threads): main() from    *)
(* Channels for Communication to the end of Multiple Producers, and from   *)
(* Concurrent Data Processing to the end of Error Handling in Threads.     *)
(***************************************************************************)
InitChanVignette ==
    /\ mainpc = "chan_create"
    /\ AfterThreads
    /\ InitChan1
    /\ InitFan
    /\ InitCounter
    /\ InitPool
    /\ InitBarrier
    /\ InitProdCons
    /\ InitLater

InitLifecycle == InitChanVignette \/ InitDataVignette

NextChan ==
    \/ ChanCreate
    \/ ChanSpawn
    \/ ChanSend
    \/ ChanDropTx
    \/ ChanExit
    \/ ChanRecv
    \/ ChanRecvEnd

NextLifecycle ==
    \/ NextChan
    \/ NextFanIn
    \/ NextDataErr

SpecLifecycle == InitLifecycle /\ [][NextLifecycle]_vars

\* Main leaves a vignette when it reaches the first step of the next one.
LeftChan == mainpc = "fan_create"

LeftFan == mainpc = "counter_create"

LeftData == mainpc = "err_spawn"

LeftErr == mainpc = "barrier_create"

InitBarrierVignette ==
    /\ mainpc = "barrier_create"
    /\ AfterThreads
    /\ AfterChan1
    /\ AfterFan
    /\ AfterCounter
    /\ AfterPool
    /\ InitBarrier
    /\ InitProdCons
    /\ AfterData
    /\ AfterErr
    /\ InitFib
    /\ NoOtherPrograms

NextBarrier ==
    \/ BarrierCreate
    \/ BarrierSpawn
    \/ \E i \in BarrierThreads : BarrierInitialWork(i)
    \/ \E i \in BarrierThreads : BarrierAnnounce(i)
    \/ \E i \in BarrierThreads : BarrierArrive(i)
    \/ \E i \in BarrierThreads : BarrierRelease(i)
    \/ \E i \in BarrierThreads : BarrierFinalWork(i)
    \/ \E i \in BarrierThreads : BarrierComplete(i)
    \/ BarrierJoin

SpecBarrier == InitBarrierVignette /\ [][NextBarrier]_vars

\* Fair scheduling: while some thread can take a step, a step is taken.
FairBarrier == SpecBarrier /\ WF_vars(NextBarrier)

Printed(i, what) == \E n \in 1 .. Len(bLog) : bLog[n] = <<i, what>>

\* Thread i has made its call of barrier.wait().
Arrived(i) == bpc[i] \in {"blocked", "final", "complete", "done"}

\* C7: when a thread prints "passed barrier, doing final work", all three
\* threads have printed "waiting at barrier" and have called barrier.wait().
C7_BarrierSafety ==
    \A i \in BarrierThreads :
      Printed(i, "final") =>
        \A k \in BarrierThreads : Printed(k, "waiting") /\ Arrived(k)

\* The last thread to arrive is the first to do its final work, the other
\* two still blocked in wait().
C7_Witness ==
    /\ Printed(2, "final")
    /\ bpc[0] = "blocked"
    /\ bpc[1] = "blocked"

BarrierOrder ==
    {<<"idle", "initial">>, <<"initial", "announce">>, <<"announce", "wait">>,
     <<"wait", "blocked">>, <<"wait", "final">>, <<"blocked", "final">>,
     <<"final", "complete">>, <<"complete", "done">>}

BarrierAllJoined ==
    /\ mainpc = "pc_create"
    /\ \A i \in BarrierThreads : bpc[i] = "done"

\* C8: every thread moves only along initial work -> waiting at the barrier
\* -> final work -> done, each calls wait() once (one generation passes), and
\* under fair scheduling all three finish and main's joins complete.
C8_BarrierLiveness ==
    /\ [][\A i \in BarrierThreads :
            bpc'[i] # bpc[i] => <<bpc[i], bpc'[i]>> \in BarrierOrder]_vars
    /\ [](barGen <= 1)
    /\ <>BarrierAllJoined

C8_Witness ==
    /\ BarrierAllJoined
    /\ barGen = 1
    /\ bJoined = NumBarrierThreads

(***************************************************************************)
(* Producer-Consumer Pattern, from a state in which main reaches it.       *)
(***************************************************************************)
\* One generation passed, thread 2 the last to arrive; the threads joined.
AfterBarrier ==
    /\ barCount = 0
    /\ barGen = 1
    /\ bSpawned = NumBarrierThreads
    /\ bJoined = NumBarrierThreads
    /\ bpc = [i \in BarrierThreads |-> "done"]
    /\ bLocalGen = [i \in BarrierThreads |-> 0]
    /\ bLog = <<<<0, "initial">>, <<1, "initial">>, <<2, "initial">>,
                <<0, "waiting">>, <<1, "waiting">>, <<2, "waiting">>,
                <<2, "final">>, <<0, "final">>, <<1, "final">>,
                <<2, "completed">>, <<0, "completed">>, <<1, "completed">>>>

InitProdConsVignette ==
    /\ mainpc = "pc_create"
    /\ AfterThreads
    /\ AfterChan1
    /\ AfterFan
    /\ AfterCounter
    /\ AfterPool
    /\ AfterBarrier
    /\ InitProdCons
    /\ AfterData
    /\ AfterErr
    /\ InitFib
    /\ NoOtherPrograms

NextProdCons ==
    \/ PcCreate
    \/ PcSpawnProducer
    \/ PcSpawnConsumer
    \/ PcProduce
    \/ PcProducerFinish
    \/ PcConsume
    \/ PcConsumerFinish
    \/ PcJoinProducer
    \/ PcJoinConsumer

SpecProdCons == InitProdConsVignette /\ [][NextProdCons]_vars

\* Fair scheduling: while some thread can take a step, a step is taken.
FairProdCons == SpecProdCons /\ WF_vars(NextProdCons)

TenItems ==
    <<"Item 1", "Item 2", "Item 3", "Item 4", "Item 5",
      "Item 6", "Item 7", "Item 8", "Item 9", "Item 10">>

ProdConsDone == mainpc = "fib_spawn" /\ prodpc = "done" /\ conspc = "done"

\* C9: whatever the relative speed of the two threads, what the consumer has
\* printed is a prefix of "Item 1" .. "Item 10", it ends its loop only with
\* all ten printed and the producer's tx dropped, no send fails, and under
\* fair scheduling both threads terminate and main joins them.
C9_ProdConsOrderAndTermination ==
    /\ [](IsPrefix(consumed, TenItems))
    /\ [](conspc = "done" => consumed = TenItems /\ prodpc = "done")
    /\ [](prodpc # "panicked")
    /\ <>ProdConsDone

\* The consumer drained the queue while the producer was still producing.
C9_Witness ==
    /\ Len(consumed) = 7
    /\ consumed[7] = "Item 7"
    /\ ch3.q = <<>>
    /\ prodpc = "produce"

\* C24: main leaves the vignette only after the producer has completed (ten
\* sends done, tx dropped) and the consumer has completed (closure observed
\* after all ten items); main is past the producer's join only with the
\* producer done; while main waits in that join the consumer is never held
\* up: it can take a queued item, and until main leaves some thread can
\* always take a step.
C24_BothCompleteBeforeExit ==
    /\ mainpc \in {"pc_join_consumer", "fib_spawn"} =>
         /\ prodpc = "done"
         /\ prodI = NumItems + 1
         /\ ch3.senders = 0
    /\ mainpc = "fib_spawn" =>
         /\ conspc = "done"
         /\ consumed = TenItems
         /\ ch3 = NoChannel
    /\ (mainpc = "pc_join_producer" /\ conspc = "consume" /\ RecvReady(ch3)) =>
         ENABLED PcConsume
    /\ mainpc = "fib_spawn" \/ ENABLED NextProdCons

\* Main waits in the producer's join while the consumer has already taken
\* three items and the producer is still sending.
C24_Witness ==
    /\ mainpc = "pc_join_producer"
    /\ prodpc = "produce"
    /\ consumed = <<"Item 1", "Item 2", "Item 3">>
    /\ prodI = 6

\* C10: the producer's send never waits for the consumer: whenever the
\* producer is about to send, its step can be taken, whatever is queued.
C10_SendNeverBlocks ==
    /\ prodpc = "produce" => ENABLED PcProduce
    /\ Len(ch3.q) <= NumItems

\* The producer has finished before the consumer has received anything: ten
\* items queued, twice the declared buffer_size.
C10_Witness ==
    /\ prodpc = "done"
    /\ conspc = "consume"
    /\ consumed = <<>>
    /\ Len(ch3.q) = NumItems
    /\ Len(ch3.q) > buffer_size

(***************************************************************************)
(* The vignettes in which tasks block on a lock, a receive, a join or the  *)
(* barrier: main() from Shared State with Mutex to the end of Worker Pool  *)
(* Pattern, and from Thread Synchronization to the end of                  *)
(* Producer-Consumer Pattern.                                              *)
(***************************************************************************)
InitBlocking == InitCounterVignette \/ InitBarrierVignette

NextBlocking ==
    \/ NextCounter
    \/ NextPool
    \/ NextBarrier
    \/ NextProdCons

SpecBlocking == InitBlocking /\ [][NextBlocking]_vars

\* Main has run the vignettes of SpecBlocking to their end.
BlockingDone == mainpc \in {"data_create", "fib_spawn"}

\* C19: no task holds two locks at once (at any time at most one of the two
\* mutexes has a holder at all, and that one a single holder); in no state are
\* all tasks blocked: until main is through, some task can take a step; while
\* a worker waits in recv with the receiver's guard, main can still send the
\* next job and drop job_tx.
C19_DeadlockFreedom ==
    /\ Cardinality(counterLock) + Cardinality(rxLock) <= 1
    /\ BlockingDone \/ ENABLED NextBlocking
    /\ mainpc = "pool_send" => ENABLED PoolSendJob
    /\ mainpc = "pool_drop" => ENABLED PoolDropTx

\* A worker blocked in recv with the guard, the others blocked on the lock,
\* main about to close the channel.
C19_Witness ==
    \E w \in PoolWorkers :
        /\ wpc[w] = "recv"
        /\ rxLock = {w}
        /\ jobCh.q = <<>>
        /\ jobCh.senders > 0
        /\ \A v \in PoolWorkers \ {w} : wpc[v] = "lock"
        /\ mainpc = "pool_drop"

(***************************************************************************)
(* examples/12_testing.rs: Calculator::divide and TextProcessor, each a    *)
(* pure function applied to arguments drawn from a bounded set.            *)
(***************************************************************************)
\* The concurrency example is not running.
NoConcurrency ==
    /\ mainpc = "not_running"
    /\ InitThreads
    /\ InitChan1
    /\ InitFan
    /\ InitCounter
    /\ InitPool
    /\ InitBarrier
    /\ InitProdCons
    /\ InitData
    /\ InitErr
    /\ InitFib

\* i32 is modelled as a two's-complement integer of IntBits bits.
IntBits == 6

IntMin == 0 - 2 ^ (IntBits - 1)

IntMax == 2 ^ (IntBits - 1) - 1

I32 == IntMin .. IntMax

Abs(x) == IF x < 0 THEN 0 - x ELSE x

\* The operator / on integers rounds toward zero.
TruncDiv(a, b) ==
    IF (a < 0) = (b < 0) THEN Abs(a) \div Abs(b) ELSE 0 - (Abs(a) \div Abs(b))

\* a / b on i32 panics ("attempt to divide with overflow") when the quotient
\* is not an i32: i32::MIN / -1.
DivOverflows(a, b) == TruncDiv(a, b) \notin I32

\* Calculator::divide
divide(a, b) ==
    IF b = 0
      THEN [tag |-> "Err", err |-> "DivisionByZero"]
      ELSE IF DivOverflows(a, b)
             THEN [tag |-> "Panic", err |-> "attempt to divide with overflow"]
             ELSE [tag |-> "Ok", val |-> TruncDiv(a, b)]

InitCalc ==
    /\ NoConcurrency
    /\ InitGame
    /\ InitIter
    /\ calcA \in I32
    /\ calcB \in I32
    /\ calcOut = [tag |-> "None"]
    /\ text = <<>>
    /\ textDone = {}
    /\ revOnce = <<>>
    /\ revTwice = <<>>
    /\ palOut = FALSE

\* calc.divide(a, b)
CalcDivide ==
    /\ calcOut.tag = "None"
    /\ calcOut' = divide(calcA, calcB)
    /\ UNCHANGED <<calcA, calcB>>
    /\ UNCHANGED notCalc

NextCalc == CalcDivide

SpecCalc == InitCalc /\ [][NextCalc]_vars

\* q is the quotient of a by b rounded toward zero: a = q * b + r with
\* |r| < |b| and r zero or of the sign of a.
IsTruncQuotient(q, a, b) ==
    /\ Abs(a - q * b) < Abs(b)
    /\ (a - q * b = 0) \/ ((a - q * b < 0) = (a < 0))

\* C14: divide(a, b) is Err(DivisionByZero) if and only if b = 0, and for
\* every b # 0 it is Ok(q) with q the quotient of a by b rounded toward zero.
C14_DivideContract ==
    calcOut.tag # "None" =>
        /\ (calcOut = [tag |-> "Err", err |-> "DivisionByZero"]) <=> (calcB = 0)
        /\ calcB # 0 =>
              /\ calcOut.tag = "Ok"
              /\ IsTruncQuotient(calcOut.val, calcA, calcB)

(***************************************************************************)
(* TextProcessor.  A string is the sequence of its chars.  The alphabet    *)
(* has letters of both cases, a digit, a space, a punctuation mark and     *)
(* U+0130 (capital I with dot above), whose lower-case form is two chars.  *)
(***************************************************************************)
MaxLen == 4

Alphabet == {"a", "b", "A", "1", " ", "!", "U+0130"}

Strings == UNION {[1 .. n -> Alphabet] : n \in 0 .. MaxLen}

\* A reversal that only moves the first char to the end.
RotateLeft(s) == IF s = <<>> THEN s ELSE Tail(s) \o <<Head(s)>>

\* chars().rev().collect()
Reverse(s) == [i \in 1 .. Len(s) |-> s[Len(s) + 1 - i]]

\* TextProcessor::reverse
reverse(s) == Reverse(s)

\* char::is_alphanumeric
IsAlphanumeric(c) == c \in {"a", "b", "A", "1", "U+0130"}

\* char::to_lowercase: the chars of the lower-case form.
ToLowercase(c) ==
    CASE c = "A" -> <<"a">>
      [] c = "U+0130" -> <<"i", "U+0307">>
      [] OTHER -> <<c>>

\* filter(|c| c.is_alphanumeric()).map(|c| c.to_lowercase().to_string()).collect()
RECURSIVE Cleaned(_)
Cleaned(s) ==
    IF s = <<>>
      THEN <<>>
      ELSE (IF IsAlphanumeric(Head(s)) THEN ToLowercase(Head(s)) ELSE <<>>)
             \o Cleaned(Tail(s))

\* TextProcessor::is_palindrome
is_palindrome(s) == Cleaned(s) = Reverse(Cleaned(s))

InitText ==
    /\ NoConcurrency
    /\ InitGame
    /\ InitIter
    /\ calcA = 0
    /\ calcB = 0
    /\ calcOut = [tag |-> "None"]
    /\ text \in Strings
    /\ textDone = {}
    /\ revOnce = <<>>
    /\ revTwice = <<>>
    /\ palOut = FALSE

\* processor.reverse(text)
TextReverse ==
    /\ "reverse" \notin textDone
    /\ revOnce' = reverse(text)
    /\ textDone' = textDone \cup {"reverse"}
    /\ UNCHANGED <<text, revTwice, palOut>>
    /\ UNCHANGED notText

\* processor.reverse(&reversed)
TextReverseBack ==
    /\ "reverse" \in textDone
    /\ "reverse_back" \notin textDone
    /\ revTwice' = reverse(revOnce)
    /\ textDone' = textDone \cup {"reverse_back"}
    /\ UNCHANGED <<text, revOnce, palOut>>
    /\ UNCHANGED notText

\* processor.is_palindrome(text)
TextIsPalindrome ==
    /\ "is_palindrome" \notin textDone
    /\ palOut' = is_palindrome(text)
    /\ textDone' = textDone \cup {"is_palindrome"}
    /\ UNCHANGED <<text, revOnce, revTwice>>
    /\ UNCHANGED notText

NextText ==
    \/ TextReverse
    \/ TextReverseBack
    \/ TextIsPalindrome

SpecText == InitText /\ [][NextText]_vars

\* C15: reverse is an involution and preserves length: reverse(text) is as
\* long as text, and reversing it again gives text.
C15_ReverseInvolution ==
    /\ "reverse" \in textDone => Len(revOnce) = Len(text)
    /\ "reverse_back" \in textDone =>
         /\ revTwice = text
         /\ Len(revTwice) = Len(revOnce)

C15_Witness ==
    /\ "reverse_back" \in textDone
    /\ text = <<"a", "b", "A", " ">>
    /\ revOnce = <<" ", "A", "b", "a">>
    /\ revTwice = text

\* C16: is_palindrome(text) is true exactly when text without its
\* non-alphanumeric chars, lower-cased, equals its own reversal; the empty
\* string and every one-char string are palindromes.
C16_PalindromeContract ==
    "is_palindrome" \in textDone =>
        /\ palOut = (Cleaned(text) = Reverse(Cleaned(text)))
        /\ Len(text) <= 1 => palOut

(***************************************************************************)
(* The program as written, in three stretches of main(): Multiple Threads *)
(* and Channels for Communication; the vignettes that share data behind a  *)
(* mutex, up to Error Handling in Threads; and Producer-Consumer,          *)
(* Concurrent Calculations and the closing lines.  Each stretch starts in  *)
(* the state the vignettes before it leave.                                *)
(***************************************************************************)
NextFib ==
    \/ FibSpawn
    \/ \E i \in FibThreads : FibRun(i)
    \/ FibJoin
    \/ Takeaways

InitProgram == InitThreadsVignette \/ InitCounterVignette \/ InitProdConsVignette

NextProgram ==
    \/ NextThreads
    \/ NextCounter
    \/ NextPool
    \/ NextDataErr
    \/ NextProdCons
    \/ NextFib

SpecProgram == InitProgram /\ [][NextProgram]_vars

\* Where a stretch of main() ends: before the next vignette, or at the end.
StretchEnd == mainpc \in {"fan_create", "barrier_create", "end"}

\* C27: in the program as written no mutex is ever poisoned and no thread
\* that uses a mutex panics; the only thread that panics is thread 1 of
\* Error Handling in Threads, at a moment when no thread holds the counter's
\* or the receiver's guard and only main holds the results' guard; main
\* never panics on a lock().unwrap() or a join().unwrap(), is never stuck,
\* and so runs each stretch to its end, the last one to the closing lines.
C27_NoGuardPoisoned ==
    /\ counterPoisoned = FALSE
    /\ \A i \in Threads : tpc[i] # "panicked"
    /\ \A w \in CounterWorkers : cpc[w] # "panicked"
    /\ \A w \in PoolWorkers : wpc[w] # "panicked"
    /\ \A c \in Starts : dpc[c] # "panicked"
    /\ \A i \in ErrThreads : epc[i] = "panicked" =>
         /\ i = PanickingThread
         /\ counterLock = {}
         /\ rxLock = {}
         /\ resLock = {MainThread}
    /\ mainpc # "panicked"
    /\ StretchEnd \/ ENABLED NextProgram

\* Main has printed the closing lines, after thread 1 panicked and with the
\* counter, the chunk sums and the Fibonacci numbers all delivered.
C27_Witness ==
    /\ mainpc = "end"
    /\ epc[PanickingThread] = "panicked"
    /\ finalCounter = NumCounterWorkers * Increments
    /\ finalTotal = 55
    /\ fibReport = <<<<35, 9227465>>, <<36, 14930352>>, <<37, 24157817>>,
                     <<38, 39088169>>>>

(***************************************************************************)
(* examples/06_structs_enums.rs: Game, a state machine over GameState, and *)
(* examples/09_traits_generics.rs: Counter, an iterator.  Each is one      *)
(* object; the calls made on it are drawn in any order, up to a bound.     *)
(***************************************************************************)
GameState == {"Menu", "Playing", "Paused", "GameOver"}

\* Calls made on one Game.
MaxCalls == 4

\* Game::start
start(s) == "Playing"

\* A pause() that pauses whatever the state is.
PauseAnywhere(s) == "Paused"

\* Game::pause: match self.state { Playing => Paused, _ => unchanged }
pause(s) == IF s = "Playing" THEN "Paused" ELSE s

\* Game::resume: match self.state { Paused => Playing, _ => unchanged }
resume(s) == IF s = "Paused" THEN "Playing" ELSE s

\* Game::end
end(s) == "GameOver"

\* game.start()
GameStart ==
    /\ Len(gameCalls) < MaxCalls
    /\ state' = start(state)
    /\ prevState' = state
    /\ gameCalls' = Append(gameCalls, "start")
    /\ UNCHANGED notGame

\* game.pause()
GamePause ==
    /\ Len(gameCalls) < MaxCalls
    /\ state' = pause(state)
    /\ prevState' = state
    /\ gameCalls' = Append(gameCalls, "pause")
    /\ UNCHANGED notGame

\* game.resume()
GameResume ==
    /\ Len(gameCalls) < MaxCalls
    /\ state' = resume(state)
    /\ prevState' = state
    /\ gameCalls' = Append(gameCalls, "resume")
    /\ UNCHANGED notGame

\* game.end()
GameEnd ==
    /\ Len(gameCalls) < MaxCalls
    /\ state' = end(state)
    /\ prevState' = state
    /\ gameCalls' = Append(gameCalls, "end")
    /\ UNCHANGED notGame

\* `if self.current < 10` of Counter::next.
CounterLimit == 10

\* Calls of next() made on one Counter.
MaxNextCalls == 13

Some(v) == [tag |-> "Some", val |-> v]

None == [tag |-> "None"]

\* A next() that tests `self.current <= 10`.
NextInclusive(c) ==
    IF c <= CounterLimit THEN [item |-> Some(c), current |-> c + 1]
                         ELSE [item |-> None, current |-> c]

\* Iterator::next for Counter: the item returned and the new self.current.
next(c) ==
    IF c < CounterLimit THEN [item |-> Some(c), current |-> c + 1]
                        ELSE [item |-> None, current |-> c]

\* counter.next()
IterNext ==
    /\ Len(nextOut) < MaxNextCalls
    /\ nextOut' = Append(nextOut, next(current).item)
    /\ current' = next(current).current
    /\ UNCHANGED notIter

InitObjects ==
    /\ NoConcurrency
    /\ NoTesting
    /\ InitGame
    /\ InitIter

NextObjects ==
    \/ GameStart
    \/ GamePause
    \/ GameResume
    \/ GameEnd
    \/ IterNext

SpecObjects == InitObjects /\ [][NextObjects]_vars

LastCall == gameCalls[Len(gameCalls)]

\* C29: a new Game is in Menu; pause() changes the state only from Playing,
\* to Paused, and resume() only from Paused, to Playing, each leaving every
\* other state as it was; start() and end() set Playing and GameOver
\* whatever the state was.  So a Game is Paused only after a pause() made in
\* Playing (or repeated in Paused), never after any other call.
C29_GameStateMachine ==
    /\ state \in GameState
    /\ gameCalls = <<>> => state = "Menu"
    /\ gameCalls # <<>> =>
         /\ LastCall = "pause" =>
              state = (IF prevState = "Playing" THEN "Paused" ELSE prevState)
         /\ LastCall = "resume" =>
              state = (IF prevState = "Paused" THEN "Playing" ELSE prevState)
         /\ LastCall = "start" => state = "Playing"
         /\ LastCall = "end" => state = "GameOver"
         /\ state = "Paused" =>
              /\ LastCall = "pause"
              /\ prevState \in {"Playing", "Paused"}
         /\ (state = "Paused" /\ prevState # "Paused") => prevState = "Playing"

\* A game that was paused and ended is started again: Playing from GameOver.
C29_Witness ==
    /\ gameCalls = <<"start", "pause", "end", "start">>
    /\ prevState = "GameOver"
    /\ state = "Playing"

\* The item the k-th call of next() has to return.
ExpectedItem(k) == IF k <= 10 THEN Some(k - 1) ELSE None

\* C30: from Counter::new(), the calls of next() return Some(0) .. Some(9)
\* in that order and None ever after; current only grows, never exceeds 10
\* and is left alone by a call that returns None.
C30_CounterIterator ==
    /\ [](/\ \A k \in 1 .. Len(nextOut) : nextOut[k] = ExpectedItem(k)
          /\ current \in 0 .. 10
          /\ current = IF Len(nextOut) < 10 THEN Len(nextOut) ELSE 10)
    /\ [][/\ current' >= current
          /\ (nextOut' # nextOut /\ nextOut'[Len(nextOut')] = None)
                => current' = current]_vars

\* Ten items were returned and next() has answered None more than once.
C30_Witness ==
    /\ Len(nextOut) >= 12
    /\ nextOut[10] = Some(9)
    /\ nextOut[11] = None
    /\ nextOut[12] = None
    /\ current = 10

====
